---- MODULE Spec2Model ----
(***************************************************************************)
(* Dataset ingestion, refresh, region resolution and response cache of     *)
(* server.js, as a state machine.  Strings are TLA+ strings, read one      *)
(* character at a time with SubSeq, so the regular expressions and the     *)
(* case conversions of the source are computed and not assumed.            *)
(***************************************************************************)
EXTENDS Integers, Sequences, FiniteSets, TLC

NULL == "<null>"

\* ------------------------------------------------------------------------
\* JavaScript string primitives used by server.js
\* ------------------------------------------------------------------------
\* s[i] (1-based); the empty string stands for undefined past either end
Ch(s, i) == IF 1 <= i /\ i <= Len(s) THEN SubSeq(s, i, i) ELSE ""

LowerAlpha == "abcdefghijklmnopqrstuvwxyz"
UpperAlpha == "ABCDEFGHIJKLMNOPQRSTUVWXYZ"
DigitChars == {"0", "1", "2", "3", "4", "5", "6", "7", "8", "9"}

UpperSet == {Ch(UpperAlpha, i) : i \in 1..26}
LowerSet == {Ch(LowerAlpha, i) : i \in 1..26}
ToUpperOf == [c \in LowerSet |-> Ch(UpperAlpha, CHOOSE i \in 1..26 : Ch(LowerAlpha, i) = c)]
ToLowerOf == [c \in UpperSet |-> Ch(LowerAlpha, CHOOSE i \in 1..26 : Ch(UpperAlpha, i) = c)]

IsDigit(c) == c \in DigitChars
IsUpper(c) == c \in UpperSet
IsLower(c) == c \in LowerSet
IsLetter(c) == IsUpper(c) \/ IsLower(c)
IsWordCh(c) == IsLetter(c) \/ IsDigit(c) \/ c = "_"
IsWs(c) == c \in {" ", "\t", "\n", "\r"}

UpperCh(c) == IF IsLower(c) THEN ToUpperOf[c] ELSE c
LowerCh(c) == IF IsUpper(c) THEN ToLowerOf[c] ELSE c

\* character-wise conversions, computed by halving the string
RECURSIVE toUpperCase(_)
toUpperCase(s) ==
  IF Len(s) <= 1 THEN UpperCh(s)
  ELSE toUpperCase(SubSeq(s, 1, Len(s) \div 2)) \o toUpperCase(SubSeq(s, Len(s) \div 2 + 1, Len(s)))

RECURSIVE toLowerCase(_)
toLowerCase(s) ==
  IF Len(s) <= 1 THEN LowerCh(s)
  ELSE toLowerCase(SubSeq(s, 1, Len(s) \div 2)) \o toLowerCase(SubSeq(s, Len(s) \div 2 + 1, Len(s)))

MinOf(S) == CHOOSE i \in S : \A j \in S : i <= j
MaxOf(S) == CHOOSE i \in S : \A j \in S : i >= j

\* s.trim(): from the first to the last character that is not white space
trim(s) ==
  LET solid == {i \in 1..Len(s) : ~IsWs(Ch(s, i))} IN
  IF solid = {} THEN "" ELSE SubSeq(s, MinOf(solid), MaxOf(solid))

startsWith(s, p) == Len(p) <= Len(s) /\ SubSeq(s, 1, Len(p)) = p
endsWith(s, p) == Len(p) <= Len(s) /\ SubSeq(s, Len(s) - Len(p) + 1, Len(s)) = p
includes(s, p) == \E i \in 1..(Len(s) - Len(p) + 1) : SubSeq(s, i, i + Len(p) - 1) = p

\* s.split(sep) for a one-character separator: the pieces between
\* consecutive separators, in order (one more piece than separators)
split(s, sep) ==
  LET seps == {i \in 1..Len(s) : Ch(s, i) = sep}
      n == Cardinality(seps)
      pos(k) == IF k = 0 THEN 0
                ELSE IF k = n + 1 THEN Len(s) + 1
                ELSE CHOOSE i \in seps : Cardinality({j \in seps : j < i}) = k - 1
  IN [k \in 1..(n + 1) |-> SubSeq(s, pos(k - 1) + 1, pos(k) - 1)]

\* text.split(/\r?\n/): a carriage return directly before the line feed is dropped
stripCr(l) == IF l # "" /\ Ch(l, Len(l)) = "\r" THEN SubSeq(l, 1, Len(l) - 1) ELSE l
stripCrs(raw) == [i \in 1..Len(raw) |-> IF i < Len(raw) THEN stripCr(raw[i]) ELSE raw[i]]
splitLines(text) == stripCrs(split(text, "\n"))

\* +valStr for cells over the alphabet of digits, letters and blanks: blank
\* text converts to 0, a digit string to its value, anything else to NaN
DigitVal(c) == CHOOSE d \in 0..9 : Ch("0123456789", d + 1) = c

RECURSIVE digitsValue(_, _)
digitsValue(s, acc) ==
  IF s = "" THEN acc ELSE digitsValue(Tail(s), acc * 10 + DigitVal(Head(s)))

IsNaNStr(valStr) == \E i \in 1..Len(trim(valStr)) : ~IsDigit(Ch(trim(valStr), i))
ToNumber(valStr) == IF trim(valStr) = "" THEN 0 ELSE digitsValue(trim(valStr), 0)

\* ------------------------------------------------------------------------
\* parseCsvLine: quote-aware field splitter
\* ------------------------------------------------------------------------
\* a splitter at every comma that only drops the quote characters
RECURSIVE parseCsvFromEveryComma(_, _)
parseCsvFromEveryComma(line, st) ==
  IF st.i > Len(line) THEN Append(st.out, st.cur)
  ELSE LET ch == Ch(line, st.i) IN
    IF ch = "\"" THEN parseCsvFromEveryComma(line, [st EXCEPT !.i = @ + 1])
    ELSE IF ch = ","
      THEN parseCsvFromEveryComma(line, [st EXCEPT !.i = @ + 1, !.cur = "",
                                                   !.out = Append(@, st.cur)])
    ELSE parseCsvFromEveryComma(line, [st EXCEPT !.i = @ + 1, !.cur = @ \o ch])

\* st is the loop state of parseCsvLine: i, cur, inQuotes, out
RECURSIVE parseCsvFrom(_, _)
parseCsvFrom(line, st) ==
  IF st.i > Len(line) THEN Append(st.out, st.cur)
  ELSE LET ch == Ch(line, st.i) IN
    IF ch = "\"" THEN
      IF st.inQuotes /\ Ch(line, st.i + 1) = "\""
        THEN parseCsvFrom(line, [st EXCEPT !.i = @ + 2, !.cur = @ \o "\""])
        ELSE parseCsvFrom(line, [st EXCEPT !.i = @ + 1, !.inQuotes = ~@])
    ELSE IF ch = "," /\ ~st.inQuotes
      THEN parseCsvFrom(line, [st EXCEPT !.i = @ + 1, !.cur = "", !.out = Append(@, st.cur)])
    ELSE parseCsvFrom(line, [st EXCEPT !.i = @ + 1, !.cur = @ \o ch])

parseCsvLine(line) ==
  parseCsvFrom(line, [i |-> 1, cur |-> "", inQuotes |-> FALSE, out |-> <<>>])

\* ------------------------------------------------------------------------
\* JavaScript Map: insertion-ordered keys, one value per key
\* ------------------------------------------------------------------------
EmptyMap == [keys |-> <<>>, val |-> <<>>]
MapHas(m, k) == k \in DOMAIN m.val
MapGet(m, k) == m.val[k]
MapSize(m) == Len(m.keys)
MapSet(m, k, v) ==
  [keys |-> IF MapHas(m, k) THEN m.keys ELSE Append(m.keys, k),
   val  |-> (k :> v) @@ m.val]

\* ------------------------------------------------------------------------
\* loadZillowWideCSV / loadZillowPricePerSqftCSV: the parse of one text
\* ------------------------------------------------------------------------
NonBlank(l) == Len(trim(l)) > 0
csvLines(text) == SelectSeq(splitLines(text), NonBlank)

\* /^(19|20)\d{2}-\d{2}(-\d{2})?$/
IsDateHeader(h) ==
  /\ Len(h) \in {7, 10}
  /\ SubSeq(h, 1, 2) \in {"19", "20"}
  /\ IsDigit(Ch(h, 3)) /\ IsDigit(Ch(h, 4))
  /\ Ch(h, 5) = "-"
  /\ IsDigit(Ch(h, 6)) /\ IsDigit(Ch(h, 7))
  /\ Len(h) = 10 => (Ch(h, 8) = "-" /\ IsDigit(Ch(h, 9)) /\ IsDigit(Ch(h, 10)))

\* header.map(...).filter(Boolean): the period columns, in column order
RECURSIVE dateColsFrom(_, _)
dateColsFrom(header, i) ==
  IF i > Len(header) THEN <<>>
  ELSE (IF IsDateHeader(trim(header[i]))
          THEN <<[col |-> i, ym |-> SubSeq(trim(header[i]), 1, 7)]>>
          ELSE <<>>) \o dateColsFrom(header, i + 1)

dateColsOf(header) == dateColsFrom(header, 1)

\* header.findIndex(h => /<word>/i.test(h)); 0 stands for -1
findHeaderIdx(header, word) ==
  LET hits == {i \in 1..Len(header) : includes(toUpperCase(header[i]), word)} IN
  IF hits = {} THEN 0 ELSE CHOOSE i \in hits : \A j \in hits : i <= j

\* header.findIndex(h => /^State$/i.test(h) || /StateName/i.test(h))
findStateIdx(header) ==
  LET hits == {i \in 1..Len(header) :
                 toUpperCase(header[i]) = "STATE" \/ includes(toUpperCase(header[i]), "STATENAME")} IN
  IF hits = {} THEN 0 ELSE CHOOSE i \in hits : \A j \in hits : i <= j

\* valStr && !isNaN(+valStr)
IsObservation(valStr) == valStr # "" /\ ~IsNaNStr(valStr)

\* the inner loop over the period columns of one row
RECURSIVE rowSeries(_, _, _)
rowSeries(row, dateCols, di) ==
  IF di > Len(dateCols) THEN <<>>
  ELSE (IF IsObservation(row[dateCols[di].col])
          THEN <<[ym |-> dateCols[di].ym, value |-> ToNumber(row[dateCols[di].col])]>>
          ELSE <<>>) \o rowSeries(row, dateCols, di + 1)

\* the maps after a row of a known type that has the series `series`
wideEntry(row, h, maps, regionName, regionType, series) ==
  IF regionType = "zip"
    THEN [maps EXCEPT !.zipMap =
            MapSet(@, regionName,
                   [date |-> series[Len(series)].ym, value |-> series[Len(series)].value,
                    state |-> IF h.stateIdx > 0 THEN trim(row[h.stateIdx]) ELSE NULL,
                    series |-> series])]
    ELSE [maps EXCEPT !.msaMap =
            MapSet(@, toUpperCase(regionName),
                   [date |-> series[Len(series)].ym, value |-> series[Len(series)].value,
                    state |-> IF h.stateIdx > 0 THEN trim(row[h.stateIdx]) ELSE NULL,
                    series |-> series])]

\* the checks of lines 93, 94 and 106 on a row that is long enough
wideChecked(row, h, maps, regionName, regionType, series) ==
  IF regionName = "" THEN maps
  ELSE IF regionType # "zip" /\ regionType # "msa" THEN maps
  ELSE IF series = <<>> THEN maps
  ELSE wideEntry(row, h, maps, regionName, regionType, series)

\* a row loop that compares the region type as it is written
wideRowCaseSensitive(row, h, maps) ==
  IF Len(row) < h.len THEN maps
  ELSE wideChecked(row, h, maps, trim(row[h.nameIdx]), trim(row[h.typeIdx]),
                   rowSeries(row, h.dateCols, 1))

\* One pass of the row loop of loadZillowWideCSV over the cells of a row:
\* the maps after the row.  h holds the header's length and column indices
wideRow(row, h, maps) ==
  IF Len(row) < h.len THEN maps
  ELSE wideChecked(row, h, maps, trim(row[h.nameIdx]), toLowerCase(trim(row[h.typeIdx])),
                   rowSeries(row, h.dateCols, 1))

\* the row loop of loadZillowWideCSV; st is its state: line index and maps
RECURSIVE wideRows(_, _, _)
wideRows(lines, h, st) ==
  IF st.li > Len(lines) THEN st.maps
  ELSE wideRows(lines, h, [li |-> st.li + 1,
                           maps |-> wideRow(parseCsvLine(lines[st.li]), h, st.maps)])

\* The maps loadZillowWideCSV builds from a text; ok is FALSE where it returns
\* before building any (no line, no period column, no name or type column)
NoParse == [ok |-> FALSE]

\* the header's length and the columns found in it (lines 70-85)
headerOf(header) ==
  [len |-> Len(header), dateCols |-> dateColsOf(header),
   nameIdx |-> findHeaderIdx(header, "REGIONNAME"),
   typeIdx |-> findHeaderIdx(header, "REGIONTYPE"),
   stateIdx |-> findStateIdx(header)]

ParseWideRows(lines, h) ==
  IF Len(h.dateCols) = 0 THEN NoParse
  ELSE IF h.nameIdx = 0 \/ h.typeIdx = 0 THEN NoParse
  ELSE wideRows(lines, h, [li |-> 2, maps |-> [ok |-> TRUE, zipMap |-> EmptyMap, msaMap |-> EmptyMap]])

ParseWideLines(lines) ==
  IF Len(lines) = 0 THEN NoParse ELSE ParseWideRows(lines, headerOf(parseCsvLine(lines[1])))

ParseWide(text) == ParseWideLines(csvLines(text))

\* the checks of lines 146 and 149 on a row that is long enough, and the entry
ppsfChecked(msaMap, regionName, regionType, series) ==
  IF regionName = "" \/ regionType # "msa" THEN msaMap
  ELSE IF series = <<>> THEN msaMap
  ELSE MapSet(msaMap, toUpperCase(regionName),
              [date |-> series[Len(series)].ym,
               value |-> series[Len(series)].value,
               series |-> series])

\* one pass of the row loop of loadZillowPricePerSqftCSV
ppsfRow(row, h, msaMap) ==
  IF Len(row) < h.len THEN msaMap
  ELSE ppsfChecked(msaMap, trim(row[h.nameIdx]), toLowerCase(trim(row[h.typeIdx])),
                   rowSeries(row, h.dateCols, 1))

\* the row loop of loadZillowPricePerSqftCSV; st is its state
RECURSIVE ppsfRows(_, _, _)
ppsfRows(lines, h, st) ==
  IF st.li > Len(lines) THEN st.msaMap
  ELSE ppsfRows(lines, h, [li |-> st.li + 1,
                           msaMap |-> ppsfRow(parseCsvLine(lines[st.li]), h, st.msaMap)])

\* The metro map loadZillowPricePerSqftCSV builds; ok is FALSE where it returns
\* before building one (no line, no name or type column)
ParsePpsfRows(lines, h) ==
  IF h.nameIdx = 0 \/ h.typeIdx = 0 THEN NoParse
  ELSE [ok |-> TRUE, msaMap |-> ppsfRows(lines, h, [li |-> 2, msaMap |-> EmptyMap])]

ParsePpsfLines(lines) ==
  IF Len(lines) = 0 THEN NoParse ELSE ParsePpsfRows(lines, headerOf(parseCsvLine(lines[1])))

ParsePpsf(text) == ParsePpsfLines(csvLines(text))

\* ------------------------------------------------------------------------
\* Address parsing
\* ------------------------------------------------------------------------
\* \b at the gap before position i
WordBoundary(s, i) == IsWordCh(Ch(s, i - 1)) # IsWordCh(Ch(s, i))
AllDigits(s, i, n) == \A k \in 0..(n - 1) : IsDigit(Ch(s, i + k))

\* /\b(\d{5})(?:-\d{4})?\b/ matches at position i
ZipMatchAt(s, i) ==
  /\ WordBoundary(s, i)
  /\ AllDigits(s, i, 5)
  /\ \/ (Ch(s, i + 5) = "-" /\ AllDigits(s, i + 6, 4) /\ WordBoundary(s, i + 10))
     \/ WordBoundary(s, i + 5)

\* extractZip: group 1 of the leftmost match, or NULL
extractZip(address) ==
  LET hits == {i \in 1..Len(address) : ZipMatchAt(address, i)} IN
  IF address = "" \/ hits = {} THEN NULL
  ELSE SubSeq(address, MinOf(hits), MinOf(hits) + 4)

\* first position at or after i that holds no white space
SkipWs(s, i) == MinOf({j \in i..(Len(s) + 1) : ~IsWs(Ch(s, j))})

\* ,\s*([A-Z]{2})\s+\d{5} with the i flag, the comma at position c
StateZipTailAt(s, c) ==
  LET j == SkipWs(s, c + 1)
      k == SkipWs(s, j + 2)
  IN /\ Ch(s, c) = ","
     /\ IsLetter(Ch(s, j)) /\ IsLetter(Ch(s, j + 1))
     /\ k > j + 2
     /\ AllDigits(s, k, 5)

NextComma(s, i) ==
  LET cs == {c \in i..Len(s) : Ch(s, c) = ","} IN IF cs = {} THEN 0 ELSE MinOf(cs)

\* the groups of the match that starts at s, whose comma is at c
cityStateGroups(address, s, c) ==
  [found |-> TRUE, city |-> SubSeq(address, s, c - 1),
   st |-> SubSeq(address, SkipWs(address, c + 1), SkipWs(address, c + 1) + 1)]

cityStateFrom(address, starts) ==
  IF starts = {} THEN [found |-> FALSE]
  ELSE cityStateGroups(address, MinOf(starts), NextComma(address, MinOf(starts)))

\* address.match(/([^,]+),\s*([A-Z]{2})\s+\d{5}/i): the leftmost match; the
\* first group runs from the start position to the next comma
cityStateMatch(address) ==
  cityStateFrom(address, {s \in 1..Len(address) :
                            /\ Ch(address, s) # ","
                            /\ NextComma(address, s) # 0
                            /\ StateZipTailAt(address, NextComma(address, s))})

\* part.match(/\b([A-Z]{2})\b/): group 1 of the leftmost match, or NULL
stateToken(part) ==
  LET hits == {i \in 1..Len(part) :
                 /\ IsUpper(Ch(part, i)) /\ IsUpper(Ch(part, i + 1))
                 /\ WordBoundary(part, i) /\ WordBoundary(part, i + 2)}
  IN IF hits = {} THEN NULL ELSE SubSeq(part, MinOf(hits), MinOf(hits) + 1)

\* address.split(',').map(p => p.trim())
commaParts(address) ==
  LET raw == split(address, ",") IN [i \in 1..Len(raw) |-> trim(raw[i])]

\* the metro keys of the data sets, and their city parts computed once
MetroKeys == {"SEATTLE, WA", "KENT, WA", "TACOMA, WA"}
CityParts == [k \in MetroKeys |-> split(k, ",")[1]]

\* key.split(',')[0]
cityPartOf(key) == IF key \in MetroKeys THEN CityParts[key] ELSE split(key, ",")[1]

\* ------------------------------------------------------------------------
\* levenshtein: the single-row dynamic programme of both fuzzy matchers
\* ------------------------------------------------------------------------
Min3(x, y, z) == IF x <= y /\ x <= z THEN x ELSE IF y <= z THEN y ELSE z

\* an inner loop that keeps the new cell, not the old one, as prev
RECURSIVE levInnerNewPrev(_, _, _, _)
levInnerNewPrev(a, b, i, st) ==
  IF st.j > Len(b) THEN st.m
  ELSE LET cell == IF Ch(a, i) = Ch(b, st.j) THEN st.prev
                   ELSE Min3(st.prev, st.m[st.j], st.m[st.j + 1]) + 1
       IN levInnerNewPrev(a, b, i,
            [m |-> [st.m EXCEPT ![st.j + 1] = cell], prev |-> cell, j |-> st.j + 1])

\* inner loop over j; st holds the row m (m[j] at index j + 1), prev and j
RECURSIVE levInner(_, _, _, _)
levInner(a, b, i, st) ==
  IF st.j > Len(b) THEN st.m
  ELSE LET tmp == st.m[st.j + 1]
           cell == IF Ch(a, i) = Ch(b, st.j) THEN st.prev
                   ELSE Min3(st.prev, st.m[st.j], st.m[st.j + 1]) + 1
       IN levInner(a, b, i, [m |-> [st.m EXCEPT ![st.j + 1] = cell], prev |-> tmp, j |-> st.j + 1])

\* outer loop over i; st holds the row m and i
RECURSIVE levOuter(_, _, _)
levOuter(a, b, st) ==
  IF st.i > Len(a) THEN st.m[Len(b) + 1]
  ELSE levOuter(a, b,
         [i |-> st.i + 1,
          m |-> levInner(a, b, st.i, [m |-> [st.m EXCEPT ![1] = st.i], prev |-> st.i - 1, j |-> 1])])

levenshtein(a, b) == levOuter(a, b, [i |-> 1, m |-> [j \in 1..(Len(b) + 1) |-> j - 1]])

\* the distances between the city parts and the cities requests name,
\* computed once
TargetCities == {"RENTON", "SEA", "SEATLE", "SEATTLE", "KENT"}
Distances ==
  [pair \in {CityParts[k] : k \in MetroKeys} \X TargetCities |->
     levenshtein(pair[1], pair[2])]
distanceOf(a, b) ==
  IF <<a, b>> \in DOMAIN Distances THEN Distances[<<a, b>>] ELSE levenshtein(a, b)

\* the addresses requests are made with; what the handler derives from an
\* address alone is computed once for each of them
Addresses ==
  {"1 A St, Seattle, WA 98109", "Kent, WA 98032", "Sea, WA", "Seatle, WA", "Renton, WA",
   "RENTON, WA", "12345 A St, Seattle, WA 98109"}
AddressParses ==
  [a \in Addresses |-> [zip |-> extractZip(a), m |-> cityStateMatch(a),
                        parts |-> commaParts(a), lower |-> toLowerCase(a)]]
zipOf(a) == IF a \in Addresses THEN AddressParses[a].zip ELSE extractZip(a)
matchOf(a) == IF a \in Addresses THEN AddressParses[a].m ELSE cityStateMatch(a)
partsOf(a) == IF a \in Addresses THEN AddressParses[a].parts ELSE commaParts(a)
lowerOf(a) == IF a \in Addresses THEN AddressParses[a].lower ELSE toLowerCase(a)

\* ------------------------------------------------------------------------
\* Region resolution: the synchronous pieces of /api/getPropertyDetails
\* ------------------------------------------------------------------------
Infinity == 999999999

NoPv == [found |-> FALSE]

\* the entry of a metro or zip map as spread into pv
PvOf(type, key, entry, inferred, miles) ==
  [found |-> TRUE, type |-> type, key |-> key, hasEntry |-> TRUE,
   date |-> entry.date, value |-> entry.value, series |-> entry.series,
   inferred |-> inferred, miles |-> miles]

\* pv when msaMap.get(chosenKey) is undefined: the spread adds nothing
PvOfMissing(key, miles) ==
  [found |-> TRUE, type |-> "msa", key |-> key, hasEntry |-> FALSE,
   date |-> NULL, value |-> 0, series |-> <<>>, inferred |-> TRUE, miles |-> miles]

\* the exact metro key of lines 652-654
exactMsaKey(m) == toUpperCase(trim(m.city) \o ", " \o toUpperCase(m.st))

ExactMetro(zv, m, msaKey) ==
  IF m.found /\ MapHas(zv.msaMap, msaKey)
    THEN PvOf("msa", msaKey, MapGet(zv.msaMap, msaKey), FALSE, Infinity)
    ELSE NoPv

ExactMatch(zv, zip, m) ==
  IF zip # NULL /\ MapHas(zv.zipMap, zip)
    THEN PvOf("zip", zip, MapGet(zv.zipMap, zip), FALSE, Infinity)
  ELSE IF m.found THEN ExactMetro(zv, m, exactMsaKey(m))
  ELSE NoPv

\* exact postal match, then exact metro match from the "City, ST zip" pattern
ExactStage(address, zv) == ExactMatch(zv, zipOf(address), matchOf(address))

\* city and state for metro inference: the geocoder's components if any, else
\* the second-to-last comma part and a two-capital token of the last part.
\* geoCity and geoState are "" where the geocoder gave none
InferFrom(parts, tok, geoCity, geoState) ==
  [ok |-> (IF geoCity = "" /\ Len(parts) >= 2 THEN parts[Len(parts) - 1] ELSE geoCity) # ""
          /\ (IF geoState = "" /\ tok # NULL THEN tok ELSE geoState) # "",
   city |-> toUpperCase(IF geoCity = "" /\ Len(parts) >= 2 THEN parts[Len(parts) - 1] ELSE geoCity),
   state |-> toUpperCase(IF geoState = "" /\ tok # NULL THEN tok ELSE geoState)]

lastStateToken(parts) == IF Len(parts) >= 2 THEN stateToken(parts[Len(parts)]) ELSE NULL

InferParsed(parts, geoCity, geoState) == InferFrom(parts, lastStateToken(parts), geoCity, geoState)

InferTarget(address, geoCity, geoState) ==
  IF geoCity # "" /\ geoState # ""
    THEN [ok |-> TRUE, city |-> toUpperCase(geoCity), state |-> toUpperCase(geoState)]
    ELSE InferParsed(partsOf(address), geoCity, geoState)

InState(key, stateUpper) == endsWith(key, ", " \o stateUpper)

\* the first loop over the metro keys: an equal city part ends the loop, the
\* first city part that starts with the target is kept otherwise
RECURSIVE prefixLoop(_, _, _, _)
prefixLoop(keys, city, state, st) ==
  IF st.i > Len(keys) THEN st.bestKey
  ELSE LET key == keys[st.i] IN
    IF ~InState(key, state) THEN prefixLoop(keys, city, state, [st EXCEPT !.i = @ + 1])
    ELSE IF cityPartOf(key) = city THEN key
    ELSE IF st.bestKey = NULL /\ startsWith(cityPartOf(key), city)
      THEN prefixLoop(keys, city, state, [i |-> st.i + 1, bestKey |-> key])
    ELSE prefixLoop(keys, city, state, [st EXCEPT !.i = @ + 1])

\* the fuzzy loop: the first key of least edit distance among the state's keys
RECURSIVE fuzzyLoop(_, _, _, _)
fuzzyLoop(keys, city, state, st) ==
  IF st.i > Len(keys) THEN st
  ELSE LET key == keys[st.i]
           dist == distanceOf(cityPartOf(key), city)
       IN IF InState(key, state) /\ dist < st.bestDist
            THEN fuzzyLoop(keys, city, state, [i |-> st.i + 1, bestDist |-> dist, bestKey |-> key])
            ELSE fuzzyLoop(keys, city, state, [st EXCEPT !.i = @ + 1])

FuzzyThreshold == 3

\* a fuzzy stage that accepts only a distance below the threshold
fuzzyKeyBelowThreshold(keys, city, state) ==
  LET r == fuzzyLoop(keys, city, state, [i |-> 1, bestDist |-> Infinity, bestKey |-> NULL])
  IN IF r.bestDist >= FuzzyThreshold THEN NULL ELSE r.bestKey

fuzzyKey(keys, city, state) ==
  LET r == fuzzyLoop(keys, city, state, [i |-> 1, bestDist |-> Infinity, bestKey |-> NULL])
  IN IF r.bestDist > FuzzyThreshold THEN NULL ELSE r.bestKey

\* bestKey of the handler: prefix stage, then fuzzy stage
BestKey(msaMap, city, state) ==
  LET pk == prefixLoop(msaMap.keys, city, state, [i |-> 1, bestKey |-> NULL])
  IN IF pk # NULL THEN pk ELSE fuzzyKey(msaMap.keys, city, state)

\* a candidate list of every metro key, whatever its state
CandidatesOfAnyState(msaMap, state) == msaMap.keys

\* the metro keys of the target state, in map order
Candidates(msaMap, state) == SelectSeq(msaMap.keys, LAMBDA k : InState(k, state))

\* haversineMiles for two points on one meridian, in thousandths of a mile:
\* with dLng = 0 the formula reduces to R * |dLat| in radians
MilliMilesPerDegree == 69094
NoPoint == [some |-> FALSE, lat |-> 0]
Abs(x) == IF x < 0 THEN -x ELSE x
haversineMiles(a, b) ==
  IF ~a.some \/ ~b.some THEN Infinity ELSE Abs(b.lat - a.lat) * MilliMilesPerDegree

\* +nearestMiles.toFixed(1), in tenths of a mile; Infinity gives null
distanceTenths(miles) == IF miles = Infinity THEN Infinity ELSE (miles + 50) \div 100

\* findMsaKeyForAddress(address, msaMap)
msaKeyFor(msaMap, cityU, stateU, starters) ==
  IF MapHas(msaMap, cityU \o ", " \o stateU) THEN cityU \o ", " \o stateU
  ELSE IF Len(starters) > 0 THEN starters[1]
  ELSE fuzzyKey(msaMap.keys, cityU, stateU)

msaKeyForUpper(msaMap, cityU, stateU) ==
  msaKeyFor(msaMap, cityU, stateU,
            SelectSeq(msaMap.keys,
                      LAMBDA k : InState(k, stateU) /\ startsWith(cityPartOf(k), cityU)))

msaKeyForCity(msaMap, city, state) ==
  IF city = "" \/ state = "" THEN NULL
  ELSE msaKeyForUpper(msaMap, toUpperCase(city), toUpperCase(state))

msaKeyForParts(msaMap, parts, tok) ==
  msaKeyForCity(msaMap, IF Len(parts) >= 2 THEN parts[Len(parts) - 1] ELSE "",
                IF tok # NULL THEN toUpperCase(tok) ELSE "")

msaKeyForMatch(address, msaMap, m) ==
  IF m.found THEN msaKeyForCity(msaMap, trim(m.city), toUpperCase(m.st))
  ELSE msaKeyForParts(msaMap, partsOf(address), lastStateToken(partsOf(address)))

findMsaKeyForAddress(address, msaMap) ==
  IF address = "" \/ MapSize(msaMap) = 0 THEN NULL
  ELSE msaKeyForMatch(address, msaMap, matchOf(address))

\* ------------------------------------------------------------------------
\* String order and Array.prototype.sort on strings
\* ------------------------------------------------------------------------
\* the characters of the model's alphabet in code-unit order
CodeOrder == " \",-0123456789ABCDEFGHIJKLMNOPQRSTUVWXYZ_abcdefghijklmnopqrstuvwxyz|"
CodeChars == [i \in 1..Len(CodeOrder) |-> Ch(CodeOrder, i)]
CodeOf(c) == IF c = "" THEN 0 ELSE CHOOSE i \in 1..Len(CodeOrder) : CodeChars[i] = c

\* a sorts before b: less at the first difference, or a proper prefix
strLess(a, b) ==
  \E i \in 1..(Len(b)) :
    /\ Len(a) >= i - 1
    /\ SubSeq(a, 1, i - 1) = SubSeq(b, 1, i - 1)
    /\ CodeOf(Ch(a, i)) < CodeOf(Ch(b, i))

\* the sequence sorted ascending (stable): each element at the position given
\* by the number of elements before it in the order
sortStrings(seq) ==
  LET before(i, j) == strLess(seq[i], seq[j]) \/ (seq[i] = seq[j] /\ i < j)
      rank(i) == Cardinality({j \in 1..Len(seq) : before(j, i)}) + 1
  IN [r \in 1..Len(seq) |-> seq[CHOOSE i \in 1..Len(seq) : rank(i) = r]]

\* Array.from(new Set(seq)): first occurrences, in order
uniqueStrings(seq) ==
  LET firsts == {i \in 1..Len(seq) : \A j \in 1..(i - 1) : seq[j] # seq[i]}
      nth(k) == CHOOSE i \in firsts : Cardinality({j \in firsts : j < i}) = k - 1
  IN [k \in 1..Cardinality(firsts) |-> seq[nth(k)]]

\* seq.join(',')
RECURSIVE joinComma(_)
joinComma(seq) ==
  IF Len(seq) = 0 THEN ""
  ELSE IF Len(seq) = 1 THEN seq[1]
  ELSE seq[1] \o "," \o joinComma(Tail(seq))

seqIncludes(seq, x) == \E i \in 1..Len(seq) : seq[i] = x

\* ------------------------------------------------------------------------
\* Series aggregation and payload assembly
\* ------------------------------------------------------------------------
SeriesCap == 240

\* series.slice(-SeriesCap)
\* a slice that keeps the first points, not the last
sliceFirst(series) ==
  IF Len(series) <= SeriesCap THEN series ELSE SubSeq(series, 1, SeriesCap)

\* series.slice(-240)
sliceLast(series) ==
  IF Len(series) <= SeriesCap THEN series
  ELSE SubSeq(series, Len(series) - SeriesCap + 1, Len(series))

yearOf(pt) == SubSeq(pt.ym, 1, 4)

\* a loop that keeps the first value seen for a year
RECURSIVE byYearFirstWins(_, _, _)
byYearFirstWins(series, i, byYear) ==
  IF i > Len(series) THEN byYear
  ELSE LET st == [i |-> i + 1,
                  byYear |-> IF MapHas(byYear, yearOf(series[i])) THEN byYear
                             ELSE MapSet(byYear, yearOf(series[i]), series[i].value)]
       IN byYearFirstWins(series, st.i, st.byYear)

\* the loop of lines 743-747 (and of line 990): byYear.set(year, pt.value)
\* for the points i..j in order (those of the first half of the range, then
\* those of the second), a later point overwriting an earlier one; byYear,
\* the map so far, is looked at first so that it is evaluated before the
\* points of the range are
RECURSIVE byYearOver(_, _, _, _)
byYearOver(series, i, j, byYear) ==
  IF MapSize(byYear) >= 0 /\ i > j THEN byYear
  ELSE IF i = j THEN MapSet(byYear, yearOf(series[i]), series[i].value)
  ELSE byYearOver(series, ((i + j) \div 2) + 1, j,
                  byYearOver(series, i, (i + j) \div 2, byYear))

\* the loop from the i-th point to the last
byYearFrom(series, i, byYear) == byYearOver(series, i, Len(series), byYear)

\* the entries of byYear in the order `sorted` of its keys, as {year, zhvi}
yearlyIn(byYear, sorted) ==
  [k \in 1..Len(sorted) |-> [year |-> sorted[k], zhvi |-> MapGet(byYear, sorted[k])]]

\* Array.from(byYear.entries()).sort(by year).map(...)
yearlySorted(byYear) == yearlyIn(byYear, sortStrings(byYear.keys))

\* lines 740-751 and 987-992
yearlyOf(series) ==
  IF Len(series) = 0 THEN <<>> ELSE yearlySorted(byYearFrom(series, 1, EmptyMap))

NoTime == -1

NoPpsfField == [present |-> FALSE]

ppsfFieldFor(pv, ppsf, ppsfKey) ==
  IF ppsfKey # NULL /\ MapHas(ppsf.msaMap, ppsfKey)
    THEN [present |-> TRUE,
          latest_month |-> MapGet(ppsf.msaMap, ppsfKey).date,
          value |-> MapGet(ppsf.msaMap, ppsfKey).value,
          series |-> sliceLast(MapGet(ppsf.msaMap, ppsfKey).series),
          metro_key |-> ppsfKey,
          inferred_from_zip |-> pv.type = "zip"]
    ELSE NoPpsfField

\* price_per_sqft of the payload (lines 779-793)
ppsfField(pv, address, ppsf) ==
  IF ~ppsf.loaded THEN NoPpsfField
  ELSE ppsfFieldFor(pv, ppsf, IF pv.type = "msa" THEN toUpperCase(pv.key)
                              ELSE findMsaKeyForAddress(address, ppsf.msaMap))

\* region_options: the metro keys of the matched key's state, sorted
regionOptionsIn(pv, zv, stateCode) ==
  IF pv.type = "msa" /\ stateCode # ""
    THEN sortStrings(SelectSeq(zv.msaMap.keys, LAMBDA k : endsWith(k, ", " \o stateCode)))
    ELSE <<>>

lastOf(seq) == seq[Len(seq)]

regionOptions(pv, zv) == regionOptionsIn(pv, zv, trim(lastOf(split(pv.key, ","))))

\* propertyData.property_value for a resolved pv (lines 738-793), or the
\* no-match note (line 795); zv, ppsf and ts are the globals as read there
propertyValueOf(pv, address, zv, ppsf, ts) ==
  IF pv.found
    THEN [kind |-> "region", type |-> pv.type, region |-> pv.key,
          hasEntry |-> pv.hasEntry, latest_month |-> pv.date, zhvi |-> pv.value,
          inferred |-> pv.inferred,
          dataset_loaded_at |-> zv.loadedAt, dataset_downloaded_at |-> ts,
          distance_miles |-> distanceTenths(pv.miles),
          yearly |-> yearlyOf(pv.series), series |-> sliceLast(pv.series),
          region_options |-> regionOptions(pv, zv),
          price_per_sqft |-> ppsfField(pv, address, ppsf)]
    ELSE [kind |-> "nomatch", dataset_loaded_at |-> zv.loadedAt, dataset_downloaded_at |-> ts]

\* price_per_sqft of /api/regionValues (lines 1002-1005)
regionPpsf(ppsf, key) ==
  IF MapHas(ppsf.msaMap, key)
    THEN [present |-> TRUE,
          latest_month |-> MapGet(ppsf.msaMap, key).date,
          value |-> MapGet(ppsf.msaMap, key).value,
          series |-> sliceLast(MapGet(ppsf.msaMap, key).series),
          metro_key |-> key]
    ELSE NoPpsfField

\* the response of /api/regionValues for the entry of key (lines 985-1005)
regionValuesOf(key, entry, ppsf) ==
  [kind |-> "region", type |-> "msa", region |-> key,
   latest_month |-> entry.date, zhvi |-> entry.value,
   yearly |-> yearlyOf(entry.series), series |-> sliceLast(entry.series),
   price_per_sqft |-> regionPpsf(ppsf, key)]

\* line 798
NotLoadedNote == [kind |-> "notloaded"]

\* ------------------------------------------------------------------------
\* Configuration, sources and collaborators
\* ------------------------------------------------------------------------
\* config.zillowDatasets defaults (config.js) and the refresh targets
DefaultZhviUrl == "https://z/zhvi.csv"
DefaultPpsfUrl == "https://z/ppsf.csv"
ZhviTarget == "data/zillow_latest.csv"
PpsfTarget == "data/zillow_ppsf_latest.csv"

\* /^https?:\/\//i.test(filePath)
IsHttpUrl(s) ==
  startsWith(toLowerCase(s), "http://") \/ startsWith(toLowerCase(s), "https://")

\* /zillow_latest\.csv$/i.test(filePath)
IsLatestName(s) == endsWith(toLowerCase(s), "zillow_latest.csv")

\* a value of ZILLOW_ZIP_ZHVI_CSV that is a URL
MirrorUrl == "https://mirror/zhvi.csv"

\* value-index texts a source may hold: two parsable data sets, an empty
\* text, a header without period columns, a header without the type column
ZhviA == "RegionName,RegionType,2023-12-31,2024-01\n98109,zip,90,100\n\"Seattle, WA\",msa,290,300\n\"Kent, WA\",MSA,,200\n"
ZhviB == "RegionName,RegionType,2024-02\n\"Tacoma, WA\",msa,250\n"
ZhviEmpty == " \n"
ZhviNoDates == "RegionName,RegionType\n98109,zip\n"
ZhviNoType == "RegionName,2024-01\n98109,100\n"
ZhviTexts == {ZhviA, ZhviB, ZhviEmpty, ZhviNoDates, ZhviNoType}

\* a data set of three periods in two years, with gaps and falling values
ZhviYears == "RegionName,RegionType,2022-01,2022-06,2023-03\n\"Seattle, WA\",msa,100,110,120\n\"Kent, WA\",msa,,110,\n\"Tacoma, WA\",msa,130,90,80\n98109,zip,100,,120\n"
YearlyTexts == {ZhviA, ZhviYears}

\* data sets for the row loop: a row of each kind (a type in capitals, a type
\* that is neither zip nor msa, a row without observation, a row shorter than
\* the header, a row without a name), and rows that share a key
CsvMixed == "RegionName,RegionType,2024-01,2024-02\n98109,zip,100,110\n\"Seattle, WA\",MSA,300,\nKing,county,5,6\n98032,Zip,,\n98101,zip,7\n,zip,8,9\n"
CsvSharedKeys == "RegionName,RegionType,2024-01,2024-02\n98109,zip,100,110\n98109,zip,,120\n\"Kent, WA\",msa,1,2\n\"KENT, WA\",msa,3,4\n"
ParseTexts == {ZhviA, ZhviYears, CsvMixed, CsvSharedKeys, ZhviNoDates}

\* a data set with metros of two states
ZhviStates == "RegionName,RegionType,2024-01\n\"Portland, OR\",msa,400\n\"Seattle, WA\",msa,300\n\"Kent, WA\",msa,200\n\"Tacoma, WA\",msa,250\n"

PpsfA == "RegionName,RegionType,2024-01\n\"Seattle, WA\",msa,5\n"
PpsfTexts == {PpsfA}

\* data sets for the period cells: trailing cells that are empty or not a
\* number and a row without any number; then cells of blanks
CsvCells == "RegionName,RegionType,2024-01,2024-02,2024-03\n98109,zip,100,110,\n98032,zip,7,x,\n98101,zip,,,\n\"Seattle, WA\",msa,,300,abc\n"
CsvBlankCells == "RegionName,RegionType,2024-01,2024-02\n98109,zip,100, \n98032,zip, , \n"
CellTexts == {ZhviA, CsvCells, CsvBlankCells}
PpsfCells == "RegionName,RegionType,2024-01,2024-02\n\"Seattle, WA\",msa,5,\n\"Kent, WA\",msa,x,\n"
PpsfBlankCells == "RegionName,RegionType,2024-01,2024-02\n\"Seattle, WA\",msa,5, \n"
PpsfCellTexts == {PpsfA, PpsfCells, PpsfBlankCells}

\* the parse of every text a source may hold, computed once
WideParses ==
  [t \in ZhviTexts \cup YearlyTexts \cup ParseTexts \cup CellTexts \cup {ZhviStates} |->
     ParseWide(t)]
PpsfParses == [t \in PpsfTexts \cup PpsfCellTexts |-> ParsePpsf(t)]
parsedWide(text) == IF text \in DOMAIN WideParses THEN WideParses[text] ELSE ParseWide(text)
parsedPpsf(text) == IF text \in DOMAIN PpsfParses THEN PpsfParses[text] ELSE ParsePpsf(text)

\* what a fetch of a dataset source can come to: a rejected promise, a
\* response that is not ok, or an ok response with a body
FetchOutcomes(texts) ==
  {[kind |-> "neterr", body |-> ""], [kind |-> "notok", body |-> ""]}
    \cup {[kind |-> "ok", body |-> b] : b \in texts}

\* the geocoding collaborator's first result per lower-cased query; every
\* place lies on one meridian, so a point is its latitude in degrees
GeoWorld(k) ==
  IF includes(k, "seattle") THEN [some |-> TRUE, lat |-> 47]
  ELSE IF includes(k, "renton") THEN [some |-> TRUE, lat |-> 46]
  ELSE IF includes(k, "kent") THEN [some |-> TRUE, lat |-> 44]
  ELSE IF includes(k, "tacoma") THEN [some |-> TRUE, lat |-> 43]
  ELSE IF includes(k, "portland") THEN [some |-> TRUE, lat |-> 46]
  ELSE NoPoint

\* a geocoding call for the lower-cased query k ends without a result (error,
\* status, empty set) or with the world's first result
GeoOutcomes(k) == {NoPoint} \cup {GeoWorld(k)}

\* the components the geocoder reports for an address (locality and
\* administrative_area_level_1), "" where it reports none
GeoComponents(address) ==
  LET k == toLowerCase(address) IN
  IF includes(k, "seattle") \/ includes(k, "seatle") THEN [city |-> "Seattle", state |-> "WA"]
  ELSE IF includes(k, "renton") THEN [city |-> "Renton", state |-> "WA"]
  ELSE IF includes(k, "kent") THEN [city |-> "Kent", state |-> "WA"]
  ELSE [city |-> "", state |-> ""]

GeoCompOutcomes(address) == {[city |-> "", state |-> ""]} \cup {GeoComponents(address)}

\* every answer the collaborator can give to some query
GeoPoints == {NoPoint} \cup {[some |-> TRUE, lat |-> d] : d \in {43, 44, 46, 47}}
GeoCompChoices ==
  {[city |-> "", state |-> ""], [city |-> "Seattle", state |-> "WA"],
   [city |-> "Renton", state |-> "WA"], [city |-> "Kent", state |-> "WA"]}

\* ------------------------------------------------------------------------
\* State
\* ------------------------------------------------------------------------
MaxTicks == 2
MsPerTick == 1000
MaxNow == MaxTicks * MsPerTick
DefaultTtlSeconds == 900

Reqs == {"q1", "q2"}
Refs == {"f1", "f2"}

\* configurations of the process environment: ZILLOW_ZIP_ZHVI_CSV (unset, a
\* URL, the local cached file), whether GOOGLE_API_KEY is set, and
\* CACHE_TTL_SECONDS (0 where unset or not a number)
Config(zhvi, google, ttl) == [zhvi |-> zhvi, google |-> google, ttl |-> ttl]

\* request bodies: the address (a string or not) and the sections array
Addr(s) == [isString |-> TRUE, str |-> s]
NotAString == [isString |-> FALSE, str |-> ""]
Body(a, hasSections, sections) == [address |-> a, hasSections |-> hasSections, sections |-> sections]
PropertyValueOnly(a) == Body(Addr(a), TRUE, <<"property_value">>)
Bodies ==
  {PropertyValueOnly("Renton, WA"),
   Body(Addr("RENTON, WA"), TRUE, <<"Property_Value", "property_value">>),
   Body(Addr("1 A St, Seattle, WA 98109"), FALSE, <<>>),
   Body(NotAString, FALSE, <<>>)}

\* requests for property_value alone: one address that takes the geocoded
\* path, one that matches a postal code
DatasetBodies == {PropertyValueOnly("Renton, WA"), PropertyValueOnly("1 A St, Seattle, WA 98109")}

\* addresses for each stage of the resolution
ResolveBodies ==
  {PropertyValueOnly(a) :
     a \in Addresses \ {"RENTON, WA"}}

\* requests that differ in the case and the outer white space of the address,
\* and in the order, case and repetition of the sections
KeyBodies ==
  {Body(Addr("Kent, WA 98032"), TRUE, <<"crime">>),
   Body(Addr("KENT, WA 98032"), TRUE, <<"Crime", "crime">>),
   Body(Addr(" Kent, WA 98032 "), TRUE, <<"crime">>),
   Body(Addr("Kent, WA 98032"), TRUE, <<"property_value", "crime">>),
   Body(Addr("kent, wa 98032"), TRUE, <<"CRIME", "Property_Value", "crime">>),
   Body(Addr("Kent, WA 98032"), FALSE, <<>>),
   Body(Addr("kent, wa 98032"), TRUE, <<>>)}

\* requests whose section names hold a comma and whose addresses hold a
\* bar, next to requests that name the same words as separate sections
SharedKeyBodies ==
  {Body(Addr("Kent, WA 98032"), TRUE, <<"property_value", "crime">>),
   Body(Addr("Kent, WA 98032"), TRUE, <<"crime,property_value">>),
   Body(Addr("KENT, WA 98032"), TRUE, <<"Crime", "crime">>),
   Body(Addr("Kent, WA 98032"), FALSE, <<>>),
   Body(Addr("Kent|a"), TRUE, <<"crime">>),
   Body(Addr("Kent"), TRUE, <<"a|crime">>)}

\* requests for property_value whose address no stage can match (a state
\* without metros, no comma, blanks), and bodies without a usable address
NoMatchBodies ==
  {PropertyValueOnly("Boise, ID"), PropertyValueOnly("Nowhere"), PropertyValueOnly(" "),
   PropertyValueOnly(""), Body(NotAString, TRUE, <<"property_value">>)}

\* requests for property_value that match a postal code or a metro, and the
\* regions /api/regionValues is asked for ("" where the body names none)
YearlyBodies ==
  {PropertyValueOnly(a) : a \in {"1 A St, Seattle, WA 98109", "Seattle, WA 98101", "Tacoma, WA 98402"}}
Regions == {"Seattle, WA", "tacoma, wa", "Boise, ID", ""}

\* requests whose metro is inferred: no postal code, no exact metro
NearestBodies == {PropertyValueOnly(a) : a \in {"Renton, WA", "RENTON, WA", "Sea, WA", "Seatle, WA", "Tac, WA"}}

\* data sets of long series: the i-th period from 2000-01 on, a series of n
\* monthly points, and the entry a loader builds from it
TwoDigits(n) == Ch("0123456789", (n \div 10) + 1) \o Ch("0123456789", (n % 10) + 1)
PeriodOf(i) == "20" \o TwoDigits((i - 1) \div 12) \o "-" \o TwoDigits(((i - 1) % 12) + 1)
LongSeries(n) == [i \in 1..n |-> [ym |-> PeriodOf(i), value |-> i]]
LongEntry(n) ==
  [date |-> PeriodOf(n), value |-> n, state |-> NULL, series |-> LongSeries(n)]
LongPpsfEntry(n) == [date |-> PeriodOf(n), value |-> n, series |-> LongSeries(n)]

\* the lengths of the stored series: short, the cap, one more than the cap,
\* and more than a year over the cap
ShortLen == 2
OverCap == SeriesCap + 1
YearOverCap == SeriesCap + 13
LongZips == MapSet(EmptyMap, "98109", LongEntry(YearOverCap))
LongMetros ==
  MapSet(MapSet(MapSet(EmptyMap, "SEATTLE, WA", LongEntry(OverCap)),
                "TACOMA, WA", LongEntry(SeriesCap)),
         "KENT, WA", LongEntry(ShortLen))
LongPpsfMetros ==
  MapSet(MapSet(EmptyMap, "SEATTLE, WA", LongPpsfEntry(OverCap)),
         "KENT, WA", LongPpsfEntry(ShortLen))
LongBodies ==
  {PropertyValueOnly(a) :
     a \in {"1 A St, Seattle, WA 98109", "Seattle, WA 98101", "Tacoma, WA 98402",
            "Kent, WA 98032"}}
LongRegions == {"Seattle, WA", "Tacoma, WA", "Kent, WA", ""}

\* the strings over alphabet of at most n characters
RECURSIVE WordsOver(_, _)
WordsOver(alphabet, n) ==
  IF n = 0 THEN {""}
  ELSE LET shorter == WordsOver(alphabet, n - 1)
       IN shorter \cup {w \o c : w \in shorter, c \in alphabet}

\* the pairs of strings levenshtein is applied to on its own: every pair of
\* short strings over two letters, and two pairs of city names
MaxWordLen == 3
LevWords == WordsOver({"A", "B"}, MaxWordLen)
LevPairs ==
  (LevWords \X LevWords)
    \cup {<<"SAN FRANSISCO", "SAN FRANCISCO">>, <<"SAN FRANCISCO", "SAN FRANSISCO">>,
          <<"SEATLE", "SEATTLE">>, <<"SEATTLE", "SEATLE">>}

VARIABLES
  env,                      \* process.env / config, fixed at start
  now,                      \* Date.now()
  zillowValues,             \* published value-index snapshot
  zillowPpsf,               \* published price-per-sqft snapshot
  zillowDownloadTimestamp,
  disk,                     \* the files of DATA_DIR
  cache,                    \* response cache
  geocodeCache,
  nextGen,                  \* identity of the next snapshot object
  pc,                       \* where each handler invocation is suspended
  req,                      \* locals of each /api/getPropertyDetails call
  ref,                      \* locals of each /api/refreshZillow call
  applied                   \* a helper applied on its own: name, arguments, result

vars == <<env, now, zillowValues, zillowPpsf, zillowDownloadTimestamp, disk, cache,
          geocodeCache, nextGen, pc, req, ref, applied>>

\* (parseInt(process.env.CACHE_TTL_SECONDS, 10) || 900) * 1000
CACHE_TTL == (IF env.ttl = 0 THEN DefaultTtlSeconds ELSE env.ttl) * 1000

NoSnapshot == [loaded |-> FALSE, gen |-> 0, loadedAt |-> NoTime,
               zipMap |-> EmptyMap, msaMap |-> EmptyMap]
NoFile == [exists |-> FALSE, text |-> "", mtime |-> NoTime]

NoGeoCall == [k |-> "", hit |-> FALSE, val |-> NoPoint]
NoData == [ai |-> {}, crime |-> FALSE, hasPv |-> FALSE, property_value |-> NotLoadedNote]
ReqLocal0 ==
  [address |-> "", region |-> "", sections |-> <<>>, all |-> TRUE, requested |-> <<>>, cacheKey |-> "",
   data |-> NoData,
   geo |-> NoGeoCall, city |-> "", state |-> "", bestKey |-> NULL, cands |-> <<>>, ci |-> 0,
   addressLoc |-> NoPoint, nearestKey |-> NULL, nearestMiles |-> Infinity,
   reads |-> {}, status |-> 0, cached |-> FALSE, start |-> 0]

SnapRef(s) == [loaded |-> s.loaded, gen |-> s.gen, loadedAt |-> s.loadedAt]
NoFetch == [kind |-> "none", body |-> ""]
RefLocal0 ==
  [zo |-> NoFetch, po |-> NoFetch, status |-> 0, mode |-> "", published |-> FALSE,
   prev |-> 0, downloaded_at |-> NoTime,
   zhvi |-> SnapRef(NoSnapshot), ppsf |-> SnapRef(NoSnapshot)]

\* no helper is applied on its own
NoCall == [fn |-> "none"]

EmptyDisk == [f \in {ZhviTarget, PpsfTarget} |-> NoFile]
\* the data directory after an earlier run of the server saved a download
SavedDisk == [EmptyDisk EXCEPT ![ZhviTarget] = [exists |-> TRUE, text |-> ZhviA, mtime |-> 0]]

\* the server after start with environment e and data directory d; the
\* invocations in `active` are the ones that will be made
InitWith(active, e, d) ==
  /\ env = e
  /\ now = 0
  /\ zillowValues = NoSnapshot
  /\ zillowPpsf = NoSnapshot
  /\ zillowDownloadTimestamp = NoTime
  /\ disk = d
  /\ cache = <<>>
  /\ geocodeCache = <<>>
  /\ nextGen = 1
  /\ pc = [p \in Reqs \cup Refs |-> IF p \in active THEN "idle" ELSE "off"]
  /\ req = [p \in Reqs |-> ReqLocal0]
  /\ ref = [f \in Refs |-> RefLocal0]
  /\ applied = NoCall

\* the server at start with no invocation to come, and the helper call c
InitApplied(c) ==
  /\ env = Config(ZhviTarget, FALSE, 1)
  /\ now = 0
  /\ zillowValues = NoSnapshot
  /\ zillowPpsf = NoSnapshot
  /\ zillowDownloadTimestamp = NoTime
  /\ disk = EmptyDisk
  /\ cache = <<>>
  /\ geocodeCache = <<>>
  /\ nextGen = 1
  /\ pc = [p \in Reqs \cup Refs |-> "off"]
  /\ req = [p \in Reqs |-> ReqLocal0]
  /\ ref = [f \in Refs |-> RefLocal0]
  /\ applied = c

\* two requests at a server that has loaded, from a mirror, data sets whose
\* series are shorter and longer than the cap of a payload
InitLong ==
  /\ env = Config(MirrorUrl, FALSE, 1)
  /\ now = 0
  /\ zillowValues = [loaded |-> TRUE, gen |-> 1, loadedAt |-> 0,
                     zipMap |-> LongZips, msaMap |-> LongMetros]
  /\ zillowPpsf = [loaded |-> TRUE, gen |-> 2, loadedAt |-> 0,
                   zipMap |-> EmptyMap, msaMap |-> LongPpsfMetros]
  /\ zillowDownloadTimestamp = NoTime
  /\ disk = EmptyDisk
  /\ cache = <<>>
  /\ geocodeCache = <<>>
  /\ nextGen = 3
  /\ pc = [p \in Reqs \cup Refs |-> IF p \in Reqs THEN "idle" ELSE "off"]
  /\ req = [p \in Reqs |-> ReqLocal0]
  /\ ref = [f \in Refs |-> RefLocal0]
  /\ applied = NoCall

\* levenshtein is about to be applied to a pair of strings
InitLevenshtein ==
  \E pair \in LevPairs :
    InitApplied([fn |-> "levenshtein", a |-> pair[1], b |-> pair[2], done |-> FALSE, out |-> 0])

\* the metro keys, cities and states the resolvers are applied to on their
\* own: a misspelling one edit from a key, a city three edits from a key, a
\* city far from every key, a city close only to a key of another state, a
\* city equally close to two keys, a city that is a key, a state without keys
FuzzyKeys == {"PORTLAND, OR", "SEATTLE, WA", "KENT, WA", "TACOMA, WA", "BENT, WA"}
FuzzyCities == {"SEATLE", "RENTON", "BELLEVUE", "PORTLND", "RENT", "KENT", "BOISE"}
FuzzyStates == {"WA", "OR", "ID"}
MaxKeys == 3
FuzzyKeyLists ==
  {ks \in UNION {[1..n -> FuzzyKeys] : n \in 0..MaxKeys} :
     \A i, j \in 1..Len(ks) : i # j => ks[i] # ks[j]}

\* a metro map with the keys in insertion order
MapOfKeys(keys) ==
  [keys |-> keys,
   val |-> [k \in {keys[i] : i \in 1..Len(keys)} |->
              [date |-> "2024-01", value |-> 1, series |-> <<>>]]]

\* a resolver is about to be applied to a metro map, a city and a state
InitFuzzy ==
  \E fn \in {"BestKey", "findMsaKeyForAddress"}, ks \in FuzzyKeyLists,
     c \in FuzzyCities, st \in FuzzyStates :
    InitApplied([fn |-> fn, keys |-> ks, city |-> c, state |-> st,
                 done |-> FALSE, out |-> NULL])

\* the lists of fields parseCsvLine is applied to in their quoted form:
\* every list of up to MaxFields fields of up to MaxFieldLen characters out
\* of a letter, the comma and the double quote, and one metro name
MaxFields == 2
MaxFieldLen == 2
FieldTexts == WordsOver({"a", ",", "\""}, MaxFieldLen)
FieldLists ==
  UNION {[1..n -> FieldTexts] : n \in 0..MaxFields} \cup {<<"Seattle, WA">>, <<"Seattle, WA", "msa">>}

\* standard CSV quoting: every embedded double quote doubled, the field
\* wrapped in double quotes, the fields joined by commas
RECURSIVE DoubledQuotes(_)
DoubledQuotes(s) ==
  IF Len(s) = 0 THEN ""
  ELSE (IF Ch(s, 1) = "\"" THEN "\"\"" ELSE Ch(s, 1)) \o DoubledQuotes(SubSeq(s, 2, Len(s)))
QuotedField(s) == "\"" \o DoubledQuotes(s) \o "\""
RECURSIVE EncodeCsv(_)
EncodeCsv(fields) ==
  IF Len(fields) = 0 THEN ""
  ELSE IF Len(fields) = 1 THEN QuotedField(fields[1])
  ELSE QuotedField(fields[1]) \o "," \o EncodeCsv(Tail(fields))

\* parseCsvLine is about to be applied to the quoted form of a list
InitTokens ==
  \E fields \in FieldLists :
    InitApplied([fn |-> "parseCsvLine", fields |-> fields, line |-> EncodeCsv(fields),
                 done |-> FALSE, out |-> <<>>])

\* one request and one refresh, with a URL or the saved file as the source
Init ==
  \/ InitWith({"q1", "f1"}, Config(MirrorUrl, TRUE, 1), EmptyDisk)
  \/ InitWith({"q1", "f1"}, Config(ZhviTarget, TRUE, 1), SavedDisk)

\* two requests that load lazily from a URL
InitRequests == InitWith(Reqs, Config(MirrorUrl, TRUE, 1), EmptyDisk)

\* two requests over the saved file, with a TTL of one second and with the
\* default TTL
InitCache ==
  \/ InitWith(Reqs, Config(ZhviTarget, FALSE, 1), SavedDisk)
  \/ InitWith(Reqs, Config(ZhviTarget, FALSE, 0), SavedDisk)

\* two refreshes: the default URL, or a local file that is there or not
InitRefreshes ==
  \/ InitWith(Refs, Config("", TRUE, 1), EmptyDisk)
  \/ InitWith(Refs, Config(ZhviTarget, TRUE, 1), SavedDisk)
  \/ InitWith(Refs, Config(ZhviTarget, TRUE, 1), EmptyDisk)

\* two requests and a refresh at a server started without
\* ZILLOW_ZIP_ZHVI_CSV, or with a URL in it
InitStale ==
  \/ InitWith({"q1", "q2", "f1"}, Config("", FALSE, 1), EmptyDisk)
  \/ InitWith({"q1", "q2", "f1"}, Config(MirrorUrl, FALSE, 1), EmptyDisk)

\* two requests over the saved file, without a geocoding key
InitKeys == InitWith(Reqs, Config(ZhviTarget, FALSE, 1), SavedDisk)

\* the data directory after an earlier run saved the text `text`
SavedText(text) == [EmptyDisk EXCEPT ![ZhviTarget] = [exists |-> TRUE, text |-> text, mtime |-> 0]]

\* two requests over a saved file of one of the data sets, or over a URL
InitYearly ==
  \/ \E text \in YearlyTexts : InitWith(Reqs, Config(ZhviTarget, FALSE, 1), SavedText(text))
  \/ InitWith(Reqs, Config(MirrorUrl, FALSE, 1), EmptyDisk)

\* a request and a refresh over a saved file of one of the data sets
InitParse ==
  \E text \in ParseTexts :
    InitWith({"q1", "f1"}, Config(ZhviTarget, FALSE, 1), SavedText(text))

\* one request and one refresh over a saved file of the period-cell data sets
InitCells ==
  \E text \in CellTexts :
    InitWith({"q1", "f1"}, Config(ZhviTarget, FALSE, 1), SavedText(text))

\* two requests at a server started without ZILLOW_ZIP_ZHVI_CSV, with a URL
\* in it, or with the saved file in it
InitBootstrap ==
  \/ InitWith(Reqs, Config("", FALSE, 1), EmptyDisk)
  \/ InitWith(Reqs, Config(MirrorUrl, FALSE, 1), EmptyDisk)
  \/ InitWith(Reqs, Config(ZhviTarget, FALSE, 1), SavedDisk)

\* one request over the data set of two states, with a geocoding key
InitNearest == InitWith({"q1"}, Config(ZhviTarget, TRUE, 1), SavedText(ZhviStates))

\* one request over the saved file, with and without a geocoding key
InitResolve ==
  \/ InitWith({"q1"}, Config(ZhviTarget, TRUE, 1), SavedDisk)
  \/ InitWith({"q1"}, Config(ZhviTarget, FALSE, 1), SavedDisk)

\* the clock advances between any two steps
Tick ==
  /\ now + MsPerTick <= MaxNow
  /\ now' = now + MsPerTick
  /\ UNCHANGED <<applied, env, zillowValues, zillowPpsf, zillowDownloadTimestamp, disk, cache,
                 geocodeCache, nextGen, pc, req, ref>>

\* ------------------------------------------------------------------------
\* Loading (the effects of loadZillowWideCSV and loadZillowPricePerSqftCSV)
\* ------------------------------------------------------------------------
\* a loader that publishes whatever it has, with no check of the parse
WidePublishUnchecked(parsed, filePath, g) ==
  [zv |-> [loaded |-> TRUE, gen |-> g.gen, loadedAt |-> now,
           zipMap |-> IF parsed.ok THEN parsed.zipMap ELSE EmptyMap,
           msaMap |-> IF parsed.ok THEN parsed.msaMap ELSE EmptyMap],
   ts |-> g.ts,
   gen |-> g.gen + 1]

\* a loader that, with a snapshot published, puts the new maps into that
\* snapshot object
WidePublishInPlace(parsed, filePath, g) ==
  IF ~parsed.ok THEN g
  ELSE IF g.zv.loaded
    THEN [g EXCEPT !.zv.zipMap = parsed.zipMap, !.zv.msaMap = parsed.msaMap]
  ELSE [zv |-> [loaded |-> TRUE, gen |-> g.gen, loadedAt |-> now,
                zipMap |-> parsed.zipMap, msaMap |-> parsed.msaMap],
        ts |-> g.ts,
        gen |-> g.gen + 1]

\* lines 111-120 for the maps `parsed`; g is the record of the globals the
\* loader may assign: zv, ts, gen
WidePublish(parsed, filePath, g) ==
  IF ~parsed.ok THEN g
  ELSE [zv |-> [loaded |-> TRUE, gen |-> g.gen, loadedAt |-> now,
                zipMap |-> parsed.zipMap, msaMap |-> parsed.msaMap],
        ts |-> IF g.ts = NoTime /\ ~IsHttpUrl(filePath) /\ IsLatestName(filePath)
                 THEN disk[filePath].mtime ELSE g.ts,
        gen |-> g.gen + 1]

\* The globals after loadZillowWideCSV has got `got` from filePath, a record
\* with ok (the read or fetch gave a text) and text
WideLoad(got, filePath, g) ==
  IF ~got.ok THEN g ELSE WidePublish(parsedWide(got.text), filePath, g)

\* line 152 for the map `parsed`; g holds the snapshot and the next identity
PpsfPublish(parsed, g) ==
  IF ~parsed.ok THEN g
  ELSE [snap |-> [loaded |-> TRUE, gen |-> g.gen, loadedAt |-> now,
                  zipMap |-> EmptyMap, msaMap |-> parsed.msaMap],
        gen |-> g.gen + 1]

\* The price-per-sqft snapshot after loadZillowPricePerSqftCSV
PpsfLoad(got, g) ==
  IF ~got.ok THEN g ELSE PpsfPublish(parsedPpsf(got.text), g)

\* the globals of the value-index loader, and their assignment
WideGlobals == [zv |-> zillowValues, ts |-> zillowDownloadTimestamp, gen |-> nextGen]
AssignWide(g) ==
  /\ zillowValues' = g.zv
  /\ zillowDownloadTimestamp' = g.ts
  /\ nextGen' = g.gen
PpsfGlobals == [snap |-> zillowPpsf, gen |-> nextGen]
AssignPpsf(g) ==
  /\ zillowPpsf' = g.snap
  /\ nextGen' = g.gen

\* fs.readFileSync(path.resolve(filePath)): the text, or ok FALSE where it throws
ReadFile(d, filePath) ==
  IF filePath \in DOMAIN d /\ d[filePath].exists
    THEN [ok |-> TRUE, text |-> d[filePath].text]
    ELSE [ok |-> FALSE, text |-> ""]

\* a fetch outcome as what the loader gets: a text only from an ok response
FetchedText(o) == [ok |-> o.kind = "ok", text |-> o.body]

\* ------------------------------------------------------------------------
\* /api/getPropertyDetails
\* ------------------------------------------------------------------------
AI_SECTIONS == {"address", "amenities_access", "commute", "schools", "broadband",
                "environmental_risk"}

\* wants(k) for the locals l of a request
wants(l, k) == l.all \/ seqIncludes(l.requested, k)
needAI(l) == l.all \/ \E i \in 1..Len(l.requested) : l.requested[i] \in AI_SECTIONS

\* requested: null (all) unless sections is a non-empty array; lower-cased,
\* duplicates dropped, then sorted in place by the cache-key line
requestedOf(body) ==
  sortStrings(uniqueStrings([i \in 1..Len(body.sections) |-> toLowerCase(body.sections[i])]))
wantsAll(body) == ~body.hasSections \/ Len(body.sections) = 0

cacheKeyOf(address, all, requested) ==
  lowerOf(address) \o "|" \o (IF all THEN "ALL" ELSE joinComma(requested))

\* lines 611-620 for a body with a string address: requested and cacheKey,
\* computed once for the bodies requests are made with
normalized(body) ==
  [requested |-> IF wantsAll(body) THEN <<>> ELSE requestedOf(body),
   key |-> cacheKeyOf(body.address.str, wantsAll(body),
                      IF wantsAll(body) THEN <<>> ELSE requestedOf(body))]
KnownBodies ==
  {b \in Bodies \cup DatasetBodies \cup ResolveBodies \cup KeyBodies \cup SharedKeyBodies :
     b.address.isString}
Normalized == [b \in KnownBodies |-> normalized(b)]
normalizedOf(body) == IF body \in KnownBodies THEN Normalized[body] ELSE normalized(body)

\* a lookup that never hits, one that still hits at the expiry time, and
\* one that passes over a "not loaded" payload once a snapshot is published
CacheHitUnlessLoadedSince(key) ==
  /\ key \in DOMAIN cache /\ cache[key].expiresAt > now
  /\ ~(zillowValues.loaded /\ cache[key].data.property_value.kind = "notloaded")
CacheHitNever(key) == FALSE
CacheHitAtExpiry(key) == key \in DOMAIN cache /\ cache[key].expiresAt >= now

\* cached && cached.expiresAt > Date.now()
CacheHit(key) == key \in DOMAIN cache /\ cache[key].expiresAt > now

\* the await the handler reaches next once it is past stage `after`
NextStage(l, after) ==
  IF after = "start" /\ needAI(l) THEN "ai"
  ELSE IF after \in {"start", "ai"} /\ wants(l, "crime") THEN "crime"
  ELSE IF after \in {"start", "ai", "crime"} /\ wants(l, "property_value") THEN "callZ"
  ELSE "fin"

ReqFrame == UNCHANGED <<applied, env, now, zillowValues, zillowPpsf, zillowDownloadTimestamp, disk,
                       geocodeCache, nextGen, ref>>

\* lines 603-632: validation, cache key, cache lookup
ReqStart(p, body) ==
  /\ pc[p] = "idle"
  /\ IF ~body.address.isString \/ body.address.str = ""
       THEN /\ req' = [req EXCEPT ![p].status = 400]
            /\ pc' = [pc EXCEPT ![p] = "done"]
       ELSE LET address == body.address.str
                all == wantsAll(body)
                requested == normalizedOf(body).requested
                key == normalizedOf(body).key
                l == [ReqLocal0 EXCEPT !.address = address, !.sections = body.sections,
                                         !.all = all,
                                         !.requested = requested, !.cacheKey = key]
            IN IF CacheHit(key)
                 THEN /\ req' = [req EXCEPT ![p] = [l EXCEPT !.data = cache[key].data,
                                                            !.cached = TRUE, !.status = 200]]
                      /\ pc' = [pc EXCEPT ![p] = "done"]
                 ELSE /\ req' = [req EXCEPT ![p] = [l EXCEPT !.start = now]]
                      /\ pc' = [pc EXCEPT ![p] = NextStage(l, "start")]
  /\ UNCHANGED cache
  /\ ReqFrame

\* a catch block that stores the partial payload under the request's key
ReqAiDoneStoringFailure(p, outcome) ==
  /\ pc[p] = "ai"
  /\ IF outcome = "ok"
       THEN /\ req' = [req EXCEPT ![p].data.ai = AI_SECTIONS]
            /\ pc' = [pc EXCEPT ![p] = NextStage(req[p], "ai")]
            /\ UNCHANGED cache
       ELSE /\ req' = [req EXCEPT ![p].status = IF outcome = "notConfigured" THEN 500 ELSE 502]
            /\ pc' = [pc EXCEPT ![p] = "done"]
            /\ cache' = (req[p].cacheKey :> [data |-> req[p].data, expiresAt |-> now + CACHE_TTL])
                           @@ cache
  /\ UNCHANGED <<applied, env, now, zillowValues, zillowPpsf, zillowDownloadTimestamp, disk,
                 geocodeCache, nextGen, ref>>

\* line 630 resumes: the generative call returned, or threw (the handler's
\* catch answers 500 where the message says "not configured", else 502)
AiOutcomes == {"ok", "notConfigured", "failed"}
ReqAiDone(p, outcome) ==
  /\ pc[p] = "ai"
  /\ IF outcome = "ok"
       THEN /\ req' = [req EXCEPT ![p].data.ai = AI_SECTIONS]
            /\ pc' = [pc EXCEPT ![p] = NextStage(req[p], "ai")]
       ELSE /\ req' = [req EXCEPT ![p].status = IF outcome = "notConfigured" THEN 500 ELSE 502]
            /\ pc' = [pc EXCEPT ![p] = "done"]
  /\ UNCHANGED cache
  /\ ReqFrame

\* line 636 resumes: getCrimeData never throws
ReqCrimeDone(p) ==
  /\ pc[p] = "crime"
  /\ req' = [req EXCEPT ![p].data.crime = TRUE]
  /\ pc' = [pc EXCEPT ![p] = NextStage(req[p], "crime")]
  /\ UNCHANGED cache
  /\ ReqFrame

\* line 641: ensureZillowLoaded up to its first suspension.  A local source
\* is read and parsed at once; a URL leaves the fetch in flight
ReqEnsureZillow(p) ==
  /\ pc[p] = "callZ"
  /\ IF zillowValues.loaded \/ env.zhvi = ""
       THEN /\ pc' = [pc EXCEPT ![p] = "callP"]
            /\ UNCHANGED <<zillowValues, zillowDownloadTimestamp, nextGen>>
     ELSE IF IsHttpUrl(env.zhvi)
       THEN /\ pc' = [pc EXCEPT ![p] = "zFetch"]
            /\ UNCHANGED <<zillowValues, zillowDownloadTimestamp, nextGen>>
     ELSE /\ AssignWide(WideLoad(ReadFile(disk, env.zhvi), env.zhvi, WideGlobals))
          /\ pc' = [pc EXCEPT ![p] = "callP"]
  /\ UNCHANGED <<applied, env, now, zillowPpsf, disk, cache, geocodeCache, req, ref>>

\* the lazy load's fetch ends (lines 59-62) and the text is parsed
ReqZillowFetched(p, o) ==
  /\ pc[p] = "zFetch"
  /\ AssignWide(WideLoad(FetchedText(o), env.zhvi, WideGlobals))
  /\ pc' = [pc EXCEPT ![p] = "callP"]
  /\ UNCHANGED <<applied, env, now, zillowPpsf, disk, cache, geocodeCache, req, ref>>

\* line 642: ensurePpsfLoaded up to its first suspension
ReqEnsurePpsf(p) ==
  /\ pc[p] = "callP"
  /\ pc' = [pc EXCEPT ![p] = IF zillowPpsf.loaded THEN "resolve" ELSE "pFetch"]
  /\ UNCHANGED <<applied, env, now, zillowValues, zillowPpsf, zillowDownloadTimestamp, disk, cache,
                 geocodeCache, nextGen, req, ref>>

\* the price-per-sqft fetch ends and the text is parsed
ReqPpsfFetched(p, o) ==
  /\ pc[p] = "pFetch"
  /\ AssignPpsf(PpsfLoad(FetchedText(o), PpsfGlobals))
  /\ pc' = [pc EXCEPT ![p] = "resolve"]
  /\ UNCHANGED <<applied, env, now, zillowValues, zillowDownloadTimestamp, disk, cache,
                 geocodeCache, req, ref>>

\* geocode(query) up to its first suspension: the cache is consulted at the call
GeoCall(query) ==
  LET k == lowerOf(query) IN
  [k |-> k, hit |-> k \in DOMAIN geocodeCache,
   val |-> IF k \in DOMAIN geocodeCache THEN geocodeCache[k] ELSE NoPoint]

\* what geocode(query) returns once the collaborator has answered o
GeoResult(call, o) == IF call.hit THEN call.val ELSE o

\* a cache that stores whatever a call came to, a missing result included
GeoCacheAfterAlways(call, o) ==
  IF ~call.hit
    THEN [x \in (DOMAIN geocodeCache) \cup {call.k} |-> IF x = call.k THEN o ELSE geocodeCache[x]]
    ELSE geocodeCache

\* geocodeCache after the call: only a result is stored
GeoCacheAfter(call, o) ==
  IF ~call.hit /\ o.some
    THEN [x \in (DOMAIN geocodeCache) \cup {call.k} |-> IF x = call.k THEN o ELSE geocodeCache[x]]
    ELSE geocodeCache

\* lines 738-799: the locals once property_value is assembled from pv; the
\* snapshot, the price-per-sqft snapshot and the timestamp are read here
WithPropertyValue(l, pv) ==
  [l EXCEPT !.data.hasPv = TRUE,
            !.data.property_value =
               propertyValueOf(pv, l.address, zillowValues, zillowPpsf, zillowDownloadTimestamp),
            !.reads = @ \cup {zillowValues.gen}]

\* a choice that keeps the prefix or fuzzy match where there is one
ChosenPvBestFirst(l, nearestKey, nearestMiles) ==
  LET chosenKey == IF l.bestKey # NULL THEN l.bestKey ELSE nearestKey IN
  IF chosenKey = NULL THEN NoPv
  ELSE IF MapHas(zillowValues.msaMap, chosenKey)
    THEN PvOf("msa", chosenKey, MapGet(zillowValues.msaMap, chosenKey), TRUE, nearestMiles)
    ELSE PvOfMissing(chosenKey, nearestMiles)

\* lines 730-734: chosenKey and its entry, fetched from the published snapshot
ChosenPv(l, nearestKey, nearestMiles) ==
  LET chosenKey == IF nearestKey # NULL THEN nearestKey ELSE l.bestKey IN
  IF chosenKey = NULL THEN NoPv
  ELSE IF MapHas(zillowValues.msaMap, chosenKey)
    THEN PvOf("msa", chosenKey, MapGet(zillowValues.msaMap, chosenKey), TRUE, nearestMiles)
    ELSE PvOfMissing(chosenKey, nearestMiles)

\* lines 688-712 for a target: prefix and fuzzy stages over the published
\* metro map
WithTarget(l, target) ==
  IF target.ok
    THEN [l EXCEPT !.city = target.city, !.state = target.state,
                   !.bestKey = BestKey(zillowValues.msaMap, target.city, target.state),
                   !.reads = @ \cup {zillowValues.gen}]
    ELSE l

\* lines 679-712 for the geocoder's components comp
WithBestKey(l, comp) == WithTarget(l, InferTarget(l.address, comp.city, comp.state))

\* the handler goes on with locals l at position at
Goes(p, l, at) ==
  /\ req' = [req EXCEPT ![p] = l]
  /\ pc' = [pc EXCEPT ![p] = at]

\* a handler that answers "not found" where no stage matched
ResolvedOrNotFound(p, l, pv) ==
  IF pv.found THEN Goes(p, WithPropertyValue(l, pv), "fin")
  ELSE Goes(p, [l EXCEPT !.status = 404], "done")

\* the handler has its pv and assembles property_value (lines 738-799)
Resolved(p, l, pv) == Goes(p, WithPropertyValue(l, pv), "fin")

\* a handler that answers with an error where the geocoder found no metro
ChosenOrGeocodeError(p, l) ==
  IF env.google /\ l.nearestKey = NULL THEN Goes(p, [l EXCEPT !.status = 502], "done")
  ELSE Resolved(p, l, ChosenPv(l, l.nearestKey, l.nearestMiles))

\* lines 730-734 for locals l, then the payload
Chosen(p, l) == Resolved(p, l, ChosenPv(l, l.nearestKey, l.nearestMiles))

\* lines 646-664 with the exact stage's pv; lr is the locals with the read noted
ResolveExact(p, lr, pv) ==
  IF pv.found \/ MapSize(zillowValues.msaMap) = 0 THEN Resolved(p, lr, pv)
  ELSE IF env.google THEN Goes(p, lr, "geoInfer")
  ELSE Chosen(p, WithBestKey(lr, [city |-> "", state |-> ""]))

\* lines 643-664: the dataset check and the exact stages
ReqResolve(p) ==
  /\ pc[p] = "resolve"
  /\ IF ~zillowValues.loaded
       THEN Goes(p, [req[p] EXCEPT !.data.hasPv = TRUE, !.data.property_value = NotLoadedNote],
                 "fin")
       ELSE ResolveExact(p, [req[p] EXCEPT !.reads = @ \cup {zillowValues.gen}],
                         ExactStage(req[p].address, zillowValues))
  /\ UNCHANGED cache
  /\ ReqFrame

\* line 716: geocode(address) is called by the locals lb that hold a target
CallsGeocode(p, lb) == Goes(p, [lb EXCEPT !.geo = GeoCall(lb.address)], "geoAddr")

\* lines 666-716: the inference geocode answered with comp; prefix and fuzzy
\* stages run, then geocode(address) is called
ReqGeoInferDone(p, comp) ==
  /\ pc[p] = "geoInfer"
  /\ comp \in GeoCompOutcomes(req[p].address)
  /\ IF InferTarget(req[p].address, comp.city, comp.state).ok
       THEN CallsGeocode(p, WithBestKey(req[p], comp))
       ELSE Resolved(p, req[p], NoPv)
  /\ UNCHANGED cache
  /\ ReqFrame

\* lines 717-724 once addressLoc is known: the candidates are listed from the
\* published metro map and the first, if any, is geocoded
ListsCandidates(p, lc) ==
  IF Len(lc.cands) > 0 THEN Goes(p, [lc EXCEPT !.geo = GeoCall(lc.cands[1])], "geoCand")
  ELSE Chosen(p, lc)

\* line 716 resumes: geocode(address) returned
ReqGeoAddrDone(p, o) ==
  /\ pc[p] = "geoAddr"
  /\ IF req[p].geo.hit THEN o = NoPoint ELSE o \in GeoOutcomes(req[p].geo.k)
  /\ geocodeCache' = GeoCacheAfter(req[p].geo, o)
  /\ IF GeoResult(req[p].geo, o).some
       THEN ListsCandidates(p, [req[p] EXCEPT
                                  !.addressLoc = GeoResult(req[p].geo, o),
                                  !.cands = Candidates(zillowValues.msaMap, req[p].state),
                                  !.ci = 1,
                                  !.reads = @ \cup {zillowValues.gen}])
       ELSE Chosen(p, req[p])
  /\ UNCHANGED <<applied, env, now, zillowValues, zillowPpsf, zillowDownloadTimestamp, disk, cache,
                 nextGen, ref>>

\* lines 725-727 for the candidate's location and its distance
Nearer(l, cityLoc, miles) ==
  IF cityLoc.some /\ miles < l.nearestMiles
    THEN [l EXCEPT !.nearestKey = l.cands[l.ci], !.nearestMiles = miles, !.ci = @ + 1]
    ELSE [l EXCEPT !.ci = @ + 1]

\* the loop of line 723 goes on with the next candidate, or ends
NextCandidate(p, ln) ==
  IF ln.ci <= Len(ln.cands) THEN Goes(p, [ln EXCEPT !.geo = GeoCall(ln.cands[ln.ci])], "geoCand")
  ELSE Chosen(p, ln)

\* line 724 resumes: geocode(key) returned for candidate ci
ReqGeoCandDone(p, o) ==
  /\ pc[p] = "geoCand"
  /\ IF req[p].geo.hit THEN o = NoPoint ELSE o \in GeoOutcomes(req[p].geo.k)
  /\ geocodeCache' = GeoCacheAfter(req[p].geo, o)
  /\ NextCandidate(p, Nearer(req[p], GeoResult(req[p].geo, o),
                             haversineMiles(req[p].addressLoc, GeoResult(req[p].geo, o))))
  /\ UNCHANGED <<applied, env, now, zillowValues, zillowPpsf, zillowDownloadTimestamp, disk, cache,
                 nextGen, ref>>

\* the keys of propertyData kept by the selective return (lines 804-812)
FilteredData(l) ==
  IF l.all THEN l.data
  ELSE [l.data EXCEPT !.ai = {k \in @ : wants(l, k)} \cup {"address"},
                      !.crime = @ /\ wants(l, "crime"),
                      !.hasPv = @ /\ wants(l, "property_value")]

\* the transient locals are dropped when the handler returns
Returned(l) ==
  [ReqLocal0 EXCEPT !.address = l.address, !.sections = l.sections, !.all = l.all,
                    !.requested = l.requested,
                    !.cacheKey = l.cacheKey, !.reads = l.reads, !.city = l.city,
                    !.state = l.state, !.bestKey = l.bestKey, !.nearestKey = l.nearestKey]

\* lines 801-815: selective return, cache write, response
ReqFinish(p) ==
  /\ pc[p] = "fin"
  /\ LET data == FilteredData(req[p]) IN
       /\ cache' = [x \in (DOMAIN cache) \cup {req[p].cacheKey} |->
                      IF x = req[p].cacheKey
                        THEN [data |-> data, expiresAt |-> now + CACHE_TTL]
                        ELSE cache[x]]
       /\ req' = [req EXCEPT ![p] = [Returned(req[p]) EXCEPT !.data = data, !.status = 200]]
  /\ pc' = [pc EXCEPT ![p] = "done"]
  /\ ReqFrame

\* ------------------------------------------------------------------------
\* /api/regionValues
\* ------------------------------------------------------------------------
\* lines 978-980: the body is read; a missing region is answered with 400
RegionStart(p, region) ==
  /\ pc[p] = "idle"
  /\ IF region = ""
       THEN /\ req' = [req EXCEPT ![p].status = 400]
            /\ pc' = [pc EXCEPT ![p] = "done"]
       ELSE /\ req' = [req EXCEPT ![p] = [ReqLocal0 EXCEPT !.region = region, !.start = now]]
            /\ pc' = [pc EXCEPT ![p] = "vCallZ"]
  /\ UNCHANGED cache
  /\ ReqFrame

\* line 980: ensureZillowLoaded up to its first suspension
RegionEnsureZillow(p) ==
  /\ pc[p] = "vCallZ"
  /\ IF zillowValues.loaded \/ env.zhvi = ""
       THEN /\ pc' = [pc EXCEPT ![p] = "vCallP"]
            /\ UNCHANGED <<zillowValues, zillowDownloadTimestamp, nextGen>>
     ELSE IF IsHttpUrl(env.zhvi)
       THEN /\ pc' = [pc EXCEPT ![p] = "vzFetch"]
            /\ UNCHANGED <<zillowValues, zillowDownloadTimestamp, nextGen>>
     ELSE /\ AssignWide(WideLoad(ReadFile(disk, env.zhvi), env.zhvi, WideGlobals))
          /\ pc' = [pc EXCEPT ![p] = "vCallP"]
  /\ UNCHANGED <<applied, env, now, zillowPpsf, disk, cache, geocodeCache, req, ref>>

\* the fetch of the lazy load ends and the text is parsed
RegionZillowFetched(p, o) ==
  /\ pc[p] = "vzFetch"
  /\ AssignWide(WideLoad(FetchedText(o), env.zhvi, WideGlobals))
  /\ pc' = [pc EXCEPT ![p] = "vCallP"]
  /\ UNCHANGED <<applied, env, now, zillowPpsf, disk, cache, geocodeCache, req, ref>>

\* line 981: ensurePpsfLoaded up to its first suspension
RegionEnsurePpsf(p) ==
  /\ pc[p] = "vCallP"
  /\ pc' = [pc EXCEPT ![p] = IF zillowPpsf.loaded THEN "vAnswer" ELSE "vpFetch"]
  /\ UNCHANGED <<applied, env, now, zillowValues, zillowPpsf, zillowDownloadTimestamp, disk, cache,
                 geocodeCache, nextGen, req, ref>>

\* the price-per-sqft fetch ends and the text is parsed
RegionPpsfFetched(p, o) ==
  /\ pc[p] = "vpFetch"
  /\ AssignPpsf(PpsfLoad(FetchedText(o), PpsfGlobals))
  /\ pc' = [pc EXCEPT ![p] = "vAnswer"]
  /\ UNCHANGED <<applied, env, now, zillowValues, zillowDownloadTimestamp, disk, cache,
                 geocodeCache, req, ref>>

\* lines 982-1006: 404 for a region that is no metro key, else the response
RegionAnswer(p) ==
  /\ pc[p] = "vAnswer"
  /\ IF ~MapHas(zillowValues.msaMap, toUpperCase(req[p].region))
       THEN req' = [req EXCEPT ![p].status = 404]
       ELSE req' = [req EXCEPT ![p].status = 200,
                               ![p].reads = @ \cup {zillowValues.gen},
                               ![p].data.hasPv = TRUE,
                               ![p].data.property_value =
                                  regionValuesOf(toUpperCase(req[p].region),
                                                 MapGet(zillowValues.msaMap,
                                                        toUpperCase(req[p].region)),
                                                 zillowPpsf)]
  /\ pc' = [pc EXCEPT ![p] = "done"]
  /\ UNCHANGED cache
  /\ ReqFrame

\* ------------------------------------------------------------------------
\* /api/refreshZillow (refreshZillowDataset and its route)
\* ------------------------------------------------------------------------
zhviSrc == IF env.zhvi # "" THEN env.zhvi ELSE DefaultZhviUrl

RefFrame == UNCHANGED <<applied, env, now, cache, geocodeCache, req>>

WriteFile(d, filePath, text) ==
  [d EXCEPT ![filePath] = [exists |-> TRUE, text |-> text, mtime |-> now]]

\* loadZillowWideCSV ran in refresh f and left the globals g; the refresh
\* goes on at position at.  published and prev are history: whether this
\* load published, and the generation that was published before it
Loaded(f, g, at) ==
  /\ AssignWide(g)
  /\ ref' = [ref EXCEPT ![f].published = g.gen # nextGen, ![f].prev = zillowValues.gen]
  /\ pc' = [pc EXCEPT ![f] = at]

\* lines 215-234: a local source is reloaded at once and the price-per-sqft
\* fetch is left in flight; a URL leaves both downloads in flight
RefreshStart(f) ==
  /\ pc[f] = "idle"
  /\ IF ~IsHttpUrl(zhviSrc)
       THEN Loaded(f, WideLoad(ReadFile(disk, zhviSrc), zhviSrc, WideGlobals), "rlFetch")
       ELSE /\ pc' = [pc EXCEPT ![f] = "rFetch"]
            /\ UNCHANGED <<zillowValues, zillowDownloadTimestamp, nextGen, ref>>
  /\ UNCHANGED <<zillowPpsf, disk>>
  /\ RefFrame

\* line 221 resumes: the price-per-sqft fetch of the local mode ended
RefreshLocalFetched(f, po) ==
  /\ pc[f] = "rlFetch"
  /\ AssignPpsf(PpsfLoad(FetchedText(po), PpsfGlobals))
  /\ pc' = [pc EXCEPT ![f] = "rRet"]
  /\ UNCHANGED <<zillowValues, zillowDownloadTimestamp, disk, ref>>
  /\ RefFrame

\* lines 231-237: Promise.all settled.  One rejected fetch rejects it; a
\* primary response that is not ok throws; the route's catch answers 500
RefreshFetched(f, zo, po) ==
  /\ pc[f] = "rFetch"
  /\ IF zo.kind = "neterr" \/ po.kind = "neterr" \/ zo.kind = "notok"
       THEN /\ ref' = [ref EXCEPT ![f].status = 500,
                                  ![f].zo = [kind |-> zo.kind, body |-> ""],
                                  ![f].po = [kind |-> po.kind, body |-> ""]]
            /\ pc' = [pc EXCEPT ![f] = "done"]
       ELSE /\ ref' = [ref EXCEPT ![f].zo = zo, ![f].po = po]
            /\ pc' = [pc EXCEPT ![f] = "rBufZ"]
  /\ UNCHANGED <<zillowValues, zillowPpsf, zillowDownloadTimestamp, disk, nextGen>>
  /\ RefFrame

\* a reload that parses the file as it was before this refresh wrote it
ReloadedBeforeWrite(d) ==
  WideLoad(ReadFile(disk, ZhviTarget), ZhviTarget, [WideGlobals EXCEPT !.ts = now])

\* lines 239-240: the timestamp is set and the saved primary file is loaded
Reloaded(d) ==
  WideLoad(ReadFile(d, ZhviTarget), ZhviTarget, [WideGlobals EXCEPT !.ts = now])

\* line 237 resumes: the primary body is written; without a price-per-sqft
\* body to read, lines 239-240 follow at once
RefreshBufferedZ(f) ==
  /\ pc[f] = "rBufZ"
  /\ disk' = WriteFile(disk, ZhviTarget, ref[f].zo.body)
  /\ IF ref[f].po.kind = "ok"
       THEN /\ pc' = [pc EXCEPT ![f] = "rBufP"]
            /\ UNCHANGED <<zillowValues, zillowDownloadTimestamp, nextGen, ref>>
       ELSE Loaded(f, Reloaded(disk'), "rZ")
  /\ UNCHANGED zillowPpsf
  /\ RefFrame

\* line 238 resumes: the price-per-sqft body is written, then lines 239-240
RefreshBufferedP(f) ==
  /\ pc[f] = "rBufP"
  /\ disk' = WriteFile(disk, PpsfTarget, ref[f].po.body)
  /\ Loaded(f, Reloaded(disk'), "rZ")
  /\ UNCHANGED zillowPpsf
  /\ RefFrame

\* the value of refreshZillowDataset: the globals as they are at the return
RefreshResult(l) ==
  [l EXCEPT !.status = 200,
            !.mode = IF IsHttpUrl(zhviSrc) THEN "downloaded" ELSE "reload-local",
            !.downloaded_at = IF IsHttpUrl(zhviSrc) THEN zillowDownloadTimestamp ELSE NoTime,
            !.zhvi = SnapRef(zillowValues), !.ppsf = SnapRef(zillowPpsf), !.prev = 0,
            !.zo = [kind |-> l.zo.kind, body |-> ""], !.po = [kind |-> l.po.kind, body |-> ""]]

\* line 241 resumes after the primary load: the saved price-per-sqft file
\* is loaded, or the result is returned
RefreshAfterZ(f) ==
  /\ pc[f] = "rZ"
  /\ IF ref[f].po.kind = "ok"
       THEN /\ AssignPpsf(PpsfLoad(ReadFile(disk, PpsfTarget), PpsfGlobals))
            /\ pc' = [pc EXCEPT ![f] = "rRet"]
            /\ UNCHANGED ref
       ELSE /\ ref' = [ref EXCEPT ![f] = RefreshResult(ref[f])]
            /\ pc' = [pc EXCEPT ![f] = "done"]
            /\ UNCHANGED <<zillowPpsf, nextGen>>
  /\ UNCHANGED <<zillowValues, zillowDownloadTimestamp, disk>>
  /\ RefFrame

\* lines 222, 242 and 968-969: the result is returned and answered
RefreshReturn(f) ==
  /\ pc[f] = "rRet"
  /\ ref' = [ref EXCEPT ![f] = RefreshResult(ref[f])]
  /\ pc' = [pc EXCEPT ![f] = "done"]
  /\ UNCHANGED <<zillowValues, zillowPpsf, zillowDownloadTimestamp, disk, nextGen>>
  /\ RefFrame

\* ------------------------------------------------------------------------
\* The server: any number of route invocations interleaved at their awaits
\* ------------------------------------------------------------------------
ReqLoads ==
  \/ \E p \in Reqs : ReqEnsureZillow(p)
  \/ \E p \in Reqs : ReqEnsurePpsf(p)
  \/ \E p \in Reqs, o \in FetchOutcomes(PpsfTexts) : ReqPpsfFetched(p, o)

ReqLazyFetch == \E p \in Reqs, o \in FetchOutcomes(ZhviTexts) : ReqZillowFetched(p, o)

ReqGeocodes ==
  \/ \E p \in Reqs, comp \in GeoCompChoices : ReqGeoInferDone(p, comp)
  \/ \E p \in Reqs, o \in GeoPoints : ReqGeoAddrDone(p, o)
  \/ \E p \in Reqs, o \in GeoPoints : ReqGeoCandDone(p, o)

ReqEnds ==
  \/ \E p \in Reqs : ReqResolve(p)
  \/ \E p \in Reqs : ReqFinish(p)

ReqCollaborators ==
  \/ \E p \in Reqs, outcome \in AiOutcomes : ReqAiDone(p, outcome)
  \/ \E p \in Reqs : ReqCrimeDone(p)

RefreshSteps ==
  \/ \E f \in Refs : RefreshStart(f)
  \/ \E f \in Refs, zo \in FetchOutcomes(ZhviTexts), po \in FetchOutcomes(PpsfTexts) :
       RefreshFetched(f, zo, po)
  \/ \E f \in Refs : RefreshBufferedZ(f)
  \/ \E f \in Refs : RefreshBufferedP(f)
  \/ \E f \in Refs : RefreshAfterZ(f)
  \/ \E f \in Refs : RefreshReturn(f)
  \/ \E f \in Refs, po \in FetchOutcomes(PpsfTexts) : RefreshLocalFetched(f, po)

\* a request for property_value and a refresh, interleaved at their awaits
Next ==
  \/ \E p \in Reqs, body \in DatasetBodies : ReqStart(p, body)
  \/ ReqLoads \/ ReqLazyFetch \/ ReqGeocodes \/ ReqEnds
  \/ RefreshSteps
Spec == Init /\ [][Next]_vars

\* two requests for property_value that load lazily, interleaved
NextRequests ==
  \/ \E p \in Reqs, body \in DatasetBodies : ReqStart(p, body)
  \/ ReqLoads \/ ReqLazyFetch \/ ReqGeocodes \/ ReqEnds
SpecRequests == InitRequests /\ [][NextRequests]_vars

\* two requests of any kind while the clock runs
NextCache ==
  \/ Tick
  \/ \E p \in Reqs, body \in Bodies : ReqStart(p, body)
  \/ ReqCollaborators \/ ReqLoads \/ ReqEnds
SpecCache == InitCache /\ [][NextCache]_vars

\* two refreshes interleaved at their awaits while the clock runs
NextRefreshes == Tick \/ RefreshSteps
SpecRefreshes == InitRefreshes /\ [][NextRefreshes]_vars

\* one request for property_value, over every address of ResolveBodies
NextResolve ==
  \/ \E p \in Reqs, body \in ResolveBodies : ReqStart(p, body)
  \/ ReqLoads \/ ReqGeocodes \/ ReqEnds
SpecResolve == InitResolve /\ [][NextResolve]_vars

\* two requests whose addresses and sections are written in different ways
NextKeys ==
  \/ \E p \in Reqs, body \in KeyBodies : ReqStart(p, body)
  \/ ReqCollaborators \/ ReqLoads \/ ReqEnds
SpecKeys == InitKeys /\ [][NextKeys]_vars

RegionSteps ==
  \/ \E p \in Reqs, region \in Regions : RegionStart(p, region)
  \/ \E p \in Reqs : RegionEnsureZillow(p)
  \/ \E p \in Reqs, o \in FetchOutcomes(YearlyTexts) : RegionZillowFetched(p, o)
  \/ \E p \in Reqs : RegionEnsurePpsf(p)
  \/ \E p \in Reqs, o \in FetchOutcomes(PpsfTexts) : RegionPpsfFetched(p, o)
  \/ \E p \in Reqs : RegionAnswer(p)

\* two requests, each to /api/getPropertyDetails or to /api/regionValues
NextYearly ==
  \/ \E p \in Reqs, body \in YearlyBodies : ReqStart(p, body)
  \/ ReqLoads \/ ReqEnds
  \/ \E p \in Reqs, o \in FetchOutcomes(YearlyTexts) : ReqZillowFetched(p, o)
  \/ RegionSteps
SpecYearly == InitYearly /\ [][NextYearly]_vars

\* a request and a refresh that load the saved file
NextParse ==
  \/ \E p \in Reqs, body \in DatasetBodies : ReqStart(p, body)
  \/ ReqLoads \/ ReqEnds
  \/ \E f \in Refs : RefreshStart(f)
  \/ \E f \in Refs, po \in FetchOutcomes(PpsfTexts) : RefreshLocalFetched(f, po)
  \/ \E f \in Refs : RefreshReturn(f)
SpecParse == InitParse /\ [][NextParse]_vars

\* two requests for property_value under each configuration of the source
NextBootstrap ==
  \/ \E p \in Reqs, body \in DatasetBodies : ReqStart(p, body)
  \/ ReqLoads \/ ReqLazyFetch \/ ReqEnds
SpecBootstrap == InitBootstrap /\ [][NextBootstrap]_vars

\* one request whose metro is inferred and then refined by distance
NextNearest ==
  \/ \E p \in Reqs, body \in NearestBodies : ReqStart(p, body)
  \/ ReqLoads \/ ReqGeocodes \/ ReqEnds
SpecNearest == InitNearest /\ [][NextNearest]_vars

\* loads of the period-cell data sets by a request and by a local refresh
NextCells ==
  \/ \E p \in Reqs, body \in DatasetBodies : ReqStart(p, body)
  \/ \E p \in Reqs : ReqEnsureZillow(p) \/ ReqEnsurePpsf(p)
  \/ \E p \in Reqs, o \in FetchOutcomes(PpsfCellTexts) : ReqPpsfFetched(p, o)
  \/ ReqEnds
  \/ \E f \in Refs : RefreshStart(f)
  \/ \E f \in Refs, po \in FetchOutcomes(PpsfCellTexts) : RefreshLocalFetched(f, po)
  \/ \E f \in Refs : RefreshReturn(f)
SpecCells == InitCells /\ [][NextCells]_vars

\* two requests, each to /api/getPropertyDetails or to /api/regionValues,
\* over data sets that are loaded
NextLong ==
  \/ \E p \in Reqs, body \in LongBodies : ReqStart(p, body)
  \/ \E p \in Reqs : ReqEnsureZillow(p)
  \/ \E p \in Reqs : ReqEnsurePpsf(p)
  \/ ReqEnds
  \/ \E p \in Reqs, region \in LongRegions : RegionStart(p, region)
  \/ \E p \in Reqs : RegionEnsureZillow(p)
  \/ \E p \in Reqs : RegionEnsurePpsf(p)
  \/ \E p \in Reqs : RegionAnswer(p)
SpecLong == InitLong /\ [][NextLong]_vars

\* two requests whose bodies may come to one cache key
NextSharedKeys ==
  \/ \E p \in Reqs, body \in SharedKeyBodies : ReqStart(p, body)
  \/ ReqCollaborators \/ ReqLoads \/ ReqEnds
SpecSharedKeys == InitKeys /\ [][NextSharedKeys]_vars

\* two requests for the value of one address and a refresh, all within one
\* clock reading (expiry is SpecCache's subject); a download
\* fails or brings a data set, with the address's zip or without it
StaleTexts == {ZhviA, ZhviB}
StaleOutcomes(texts) ==
  {[kind |-> "neterr", body |-> ""]} \cup {[kind |-> "ok", body |-> b] : b \in texts}
NextStale ==
  \/ \E p \in Reqs : ReqStart(p, PropertyValueOnly("1 A St, Seattle, WA 98109"))
  \/ ReqLoads \/ ReqEnds
  \/ \E p \in Reqs, o \in StaleOutcomes(StaleTexts) : ReqZillowFetched(p, o)
  \/ \E f \in Refs : RefreshStart(f)
  \/ \E f \in Refs, zo \in StaleOutcomes(StaleTexts), po \in StaleOutcomes(PpsfTexts) :
       RefreshFetched(f, zo, po)
  \/ \E f \in Refs : RefreshBufferedZ(f)
  \/ \E f \in Refs : RefreshBufferedP(f)
  \/ \E f \in Refs : RefreshAfterZ(f)
  \/ \E f \in Refs : RefreshReturn(f)
SpecStale == InitStale /\ [][NextStale]_vars

\* the server's own state while a helper is applied on its own
HelperFrame ==
  UNCHANGED <<env, now, zillowValues, zillowPpsf, zillowDownloadTimestamp, disk, cache,
              geocodeCache, nextGen, pc, req, ref>>

\* levenshtein(a, b) returns
ApplyLevenshtein ==
  /\ applied.fn = "levenshtein" /\ ~applied.done
  /\ applied' = [applied EXCEPT !.done = TRUE, !.out = levenshtein(applied.a, applied.b)]
  /\ HelperFrame

NextLevenshtein == ApplyLevenshtein

\* parseCsvLine(line) returns
ApplyParseCsvLine ==
  /\ applied.fn = "parseCsvLine" /\ ~applied.done
  /\ applied' = [applied EXCEPT !.done = TRUE, !.out = parseCsvLine(applied.line)]
  /\ HelperFrame

NextTokens == ApplyParseCsvLine
SpecTokens == InitTokens /\ [][NextTokens]_vars

\* lines 689-712 for an inferred city and state: bestKey after the prefix
\* and fuzzy stages
ApplyBestKey ==
  /\ applied.fn = "BestKey" /\ ~applied.done
  /\ applied' = [applied EXCEPT !.done = TRUE,
                                !.out = BestKey(MapOfKeys(applied.keys), applied.city,
                                                applied.state)]
  /\ HelperFrame

\* findMsaKeyForAddress("<city>, <state>", msaMap) returns
ApplyFindMsaKey ==
  /\ applied.fn = "findMsaKeyForAddress" /\ ~applied.done
  /\ applied' = [applied EXCEPT !.done = TRUE,
                                !.out = findMsaKeyForAddress(applied.city \o ", " \o applied.state,
                                                             MapOfKeys(applied.keys))]
  /\ HelperFrame

NextFuzzy == ApplyBestKey \/ ApplyFindMsaKey
SpecFuzzy == InitFuzzy /\ [][NextFuzzy]_vars
SpecLevenshtein == InitLevenshtein /\ [][NextLevenshtein]_vars

\* one request for property_value over every address, those that no stage
\* matches and the bodies without an address included
NextInputs ==
  \/ \E p \in Reqs, body \in ResolveBodies \cup NoMatchBodies : ReqStart(p, body)
  \/ ReqLoads \/ ReqGeocodes \/ ReqEnds
SpecInputs == InitResolve /\ [][NextInputs]_vars

\* ------------------------------------------------------------------------
\* Properties
\* ------------------------------------------------------------------------
\* C1: within one /api/getPropertyDetails request every read of the published
\* value-index snapshot comes from one snapshot generation (reads collects
\* the generation of the snapshot at each read of the handler)
C1_OneGenerationPerRequest == \A p \in Reqs : Cardinality(req[p].reads) <= 1


\* C2: overlapping invocations of refreshZillowDataset cause one download of
\* each source: at no time are two downloads of the primary source in flight
C2_OneDownloadInFlight == Cardinality({f \in Refs : pc[f] = "rFetch"}) <= 1

\* C3: with no snapshot published, overlapping requests collapse into one
\* load per family: at no time are two lazy fetches of the value-index
\* source, or two of the price-per-sqft source, in flight
C3_OneLazyLoadInFlight ==
  /\ Cardinality({p \in Reqs : pc[p] = "zFetch"}) <= 1
  /\ Cardinality({p \in Reqs : pc[p] = "pFetch"}) <= 1

\* The key each stage of the resolution yields for request p over the
\* published snapshot, NULL where the stage fails or is not reached
ZipStageKey(p) ==
  LET zip == extractZip(req[p].address) IN
  IF zip # NULL /\ MapHas(zillowValues.zipMap, zip) THEN zip ELSE NULL
MetroStageKey(p) ==
  LET m == cityStateMatch(req[p].address) IN
  IF m.found /\ MapHas(zillowValues.msaMap, exactMsaKey(m)) THEN exactMsaKey(m) ELSE NULL
HasTarget(p) == req[p].city # "" /\ req[p].state # ""
PrefixStageKey(p) ==
  IF HasTarget(p)
    THEN prefixLoop(zillowValues.msaMap.keys, req[p].city, req[p].state,
                    [i |-> 1, bestKey |-> NULL])
    ELSE NULL
FuzzyStageKey(p) ==
  IF HasTarget(p) THEN fuzzyKey(zillowValues.msaMap.keys, req[p].city, req[p].state)
  ELSE NULL
NearestStageKey(p) == req[p].nearestKey

\* the result of the earliest stage of the sequence that succeeded
FirstSuccess(keys) ==
  IF \A i \in 1..Len(keys) : keys[i] = NULL THEN NULL
  ELSE keys[MinOf({i \in 1..Len(keys) : keys[i] # NULL})]

\* request p was answered with a property_value resolved over the snapshot
Answered(p) ==
  /\ pc[p] = "done" /\ req[p].status = 200 /\ ~req[p].cached
  /\ req[p].data.hasPv
  /\ req[p].data.property_value.kind \in {"region", "nomatch"}

\* the region of the answer, NULL for the no-match note
ResolvedKey(p) ==
  IF req[p].data.property_value.kind = "region"
    THEN req[p].data.property_value.region ELSE NULL

IndexedZips(address) ==
  {SubSeq(address, i, i + 4) :
     i \in {j \in 1..Len(address) :
              ZipMatchAt(address, j) /\ MapHas(zillowValues.zipMap, SubSeq(address, j, j + 4))}}

\* C5: an address that contains a 5-digit postal code which is a key of the
\* zip index resolves to that code's zip-level entry, its series as stored
C5_IndexedZipWins ==
  \A p \in Reqs : Answered(p) =>
    \A z \in IndexedZips(req[p].address) :
      /\ req[p].data.property_value.kind = "region"
      /\ req[p].data.property_value.type = "zip"
      /\ req[p].data.property_value.region = z
      /\ req[p].data.property_value.series = sliceLast(MapGet(zillowValues.zipMap, z).series)

\* what a load of the primary source got is of no use: no text, or a text
\* that does not parse
PrimaryUnusable(got) == ~got.ok \/ ~parsedWide(got.text).ok

\* C6: a load or refresh whose primary source cannot be obtained (response
\* not ok, network error, unreadable file) or does not parse leaves the
\* published value-index snapshot as it was
C6_FailedPrimaryKeepsSnapshot ==
  [][/\ \A p \in Reqs, o \in FetchOutcomes(ZhviTexts) :
          (PrimaryUnusable(FetchedText(o)) /\ ReqZillowFetched(p, o))
            => zillowValues' = zillowValues
     /\ \A p \in Reqs :
          (PrimaryUnusable(ReadFile(disk, env.zhvi)) /\ ReqEnsureZillow(p))
            => zillowValues' = zillowValues
     /\ \A f \in Refs :
          (PrimaryUnusable(ReadFile(disk, zhviSrc)) /\ RefreshStart(f))
            => zillowValues' = zillowValues
     /\ \A f \in Refs, zo \in FetchOutcomes(ZhviTexts), po \in FetchOutcomes(PpsfTexts) :
          (zo.kind # "ok" /\ RefreshFetched(f, zo, po))
            => zillowValues' = zillowValues
     /\ \A f \in Refs :
          (PrimaryUnusable(FetchedText(ref[f].zo)) /\ (RefreshBufferedZ(f) \/ RefreshBufferedP(f)))
            => zillowValues' = zillowValues]_vars

\* a refresh loaded an unparsable download while a snapshot was published,
\* and that snapshot is still the published one
C6_SnapshotSurvivedFailedRefresh ==
  \E f \in Refs :
    /\ pc[f] = "rZ" /\ ~ref[f].published
    /\ ref[f].zo.kind = "ok" /\ ~ParseWide(ref[f].zo.body).ok
    /\ ref[f].prev > 0 /\ zillowValues.loaded /\ zillowValues.gen = ref[f].prev

\* C7: a refresh whose primary source could not be fetched, read or parsed
\* reports failure: a refresh that answers with success has published the
\* primary source it loaded
C7_FailedPrimaryIsReported ==
  \A f \in Refs : (pc[f] = "done" /\ ref[f].status = 200) => ref[f].published

\* C8: a remote refresh whose value-index download succeeded and whose
\* price-per-sqft download failed (response not ok, or network error) still
\* answers with success
C8_SecondaryFailureTolerated ==
  \A f \in Refs :
    (pc[f] = "done" /\ ref[f].zo.kind = "ok" /\ ref[f].po.kind \in {"notok", "neterr"})
      => ref[f].status = 200

\* the entry under key is in the cache and the clock has not reached its expiry
FreshEntry(key) == key \in DOMAIN cache /\ now < cache[key].expiresAt

\* request p arrives in this step
Arrives(p) == pc[p] = "idle" /\ pc'[p] # "idle"

C10_ExpiryIsWriteTimePlusTtl ==
  [][/\ \A k \in DOMAIN cache' :
          (k \notin DOMAIN cache \/ cache'[k] # cache[k])
            => cache'[k].expiresAt = now + CACHE_TTL
     /\ \A p \in Reqs :
          /\ (Arrives(p) /\ req'[p].cached)
               => FreshEntry(req'[p].cacheKey) /\ cache' = cache
          /\ (Arrives(p) /\ req'[p].status # 400 /\ ~FreshEntry(req'[p].cacheKey))
               => ~req'[p].cached /\ pc'[p] # "done"
          /\ (pc[p] = "fin" /\ pc'[p] = "done")
               => cache'[req[p].cacheKey].expiresAt = now + CACHE_TTL]_vars

\* a request arrived at the very time an entry under its key expired, and is
\* being recomputed
C10_RecomputedAtExpiry ==
  \E p \in Reqs :
    /\ pc[p] \notin {"idle", "done", "off"}
    /\ req[p].cacheKey \in DOMAIN cache
    /\ cache[req[p].cacheKey].expiresAt = req[p].start

\* request p has passed the validation of its body
Accepted(p) == pc[p] \notin {"idle", "off"} /\ req[p].status # 400

\* the address as the specification normalizes it: case-folded and trimmed
NormalAddress(p) == trim(toLowerCase(req[p].address))

\* the sections of the body as a set, without regard to letter case
SectionSet(p) == {toLowerCase(req[p].sections[i]) : i \in 1..Len(req[p].sections)}

\* C11: two requests whose addresses differ only in letter case or in outer
\* white space and whose sections are equal as sets have the same cache
\* key; a request without sections has the all-fields key
C11_KeyIgnoresCaseAndOuterSpace ==
  /\ \A p, q \in Reqs :
       (Accepted(p) /\ Accepted(q) /\ NormalAddress(p) = NormalAddress(q)
          /\ SectionSet(p) = SectionSet(q))
         => req[p].cacheKey = req[q].cacheKey
  /\ \A p \in Reqs :
       (Accepted(p) /\ SectionSet(p) = {})
         => req[p].cacheKey = toLowerCase(req[p].address) \o "|ALL"

\* the query of the geocode call request p is suspended in
GeoQuery(p) == IF pc[p] = "geoAddr" THEN req[p].address ELSE req[p].cands[req[p].ci]

\* in this step the collaborator answers o to the call request p is suspended in
GeoAnswered(p, o) == ~req[p].geo.hit /\ (ReqGeoAddrDone(p, o) \/ ReqGeoCandDone(p, o))

\* the call request p is suspended in returns null in this step: the handler
\* goes on without a location for the address, or skips the candidate
GeoReturnsNull(p) ==
  IF pc[p] = "geoAddr" THEN ~req'[p].addressLoc.some
  ELSE req'[p].nearestKey = req[p].nearestKey /\ req'[p].nearestMiles = req[p].nearestMiles

\* C12: the geocode cache gains or changes the entry of key k only when a
\* collaborator call for a query whose lower-case form is k gives a result,
\* and the entry is that result; a call without a result returns null and
\* leaves the cache as it was; no entry is ever removed
C12_GeocodeCacheHoldsResults ==
  [][/\ \A k \in DOMAIN geocodeCache : k \in DOMAIN geocodeCache'
     /\ \A k \in DOMAIN geocodeCache' :
          (k \notin DOMAIN geocodeCache \/ geocodeCache'[k] # geocodeCache[k])
            => \E p \in Reqs, o \in GeoPoints :
                 /\ GeoAnswered(p, o) /\ o.some
                 /\ toLowerCase(GeoQuery(p)) = k
                 /\ geocodeCache'[k] = o
     /\ \A p \in Reqs, o \in GeoPoints :
          (GeoAnswered(p, o) /\ ~o.some)
            => geocodeCache' = geocodeCache /\ GeoReturnsNull(p)]_vars

\* the last candidate call of a request came to nothing and its key is not
\* in the cache, while the results of earlier calls are
C12_FailureNotCached ==
  \E p \in Reqs :
    /\ pc[p] = "fin" /\ req[p].geo.k # "" /\ ~req[p].geo.hit
    /\ req[p].geo.k \notin DOMAIN geocodeCache
    /\ \E k \in DOMAIN geocodeCache : geocodeCache[k].some

\* request p goes on after this step: it waits for another geocoding call or
\* has its property_value, and no error status is set
GoesOn(p) == req'[p].status = 0 /\ pc'[p] \in {"geoAddr", "geoCand", "fin"}

\* the property_value request p holds is the region `key`, or the no-match
\* note where key is NULL
ValueIsOf(l, key) ==
  /\ l.data.hasPv
  /\ IF key = NULL THEN l.data.property_value.kind = "nomatch"
     ELSE l.data.property_value.kind = "region" /\ l.data.property_value.region = key

\* C13: a geocoding call of the resolution that fails (no components from the
\* inference call, no point from geocode) does not fail the request: the
\* handler goes on; where the geocoder found no metro the property_value is
\* the prefix or fuzzy key if any and the no-match note otherwise; and the
\* request is answered with success
C13_GeocodeFailureIsNotAnError ==
  [][\A p \in Reqs :
       /\ \A o \in GeoPoints : (GeoAnswered(p, o) /\ ~o.some) => GoesOn(p)
       /\ \A comp \in GeoCompChoices :
            (comp.city = "" /\ comp.state = "" /\ ReqGeoInferDone(p, comp)) => GoesOn(p)
       /\ (pc[p] \in {"geoInfer", "geoAddr", "geoCand"} /\ pc'[p] = "fin"
             /\ req'[p].nearestKey = NULL)
            => ValueIsOf(req'[p], req'[p].bestKey)
       /\ (pc[p] = "fin" /\ pc'[p] = "done") => req'[p].status = 200]_vars

\* with a geocoding key configured, a request whose geocoding found no metro
\* was answered with the metro of its prefix or fuzzy stage
C13_AnsweredFromBestKey ==
  \E p \in Reqs :
    /\ Answered(p) /\ env.google /\ HasTarget(p)
    /\ req[p].nearestKey = NULL /\ req[p].bestKey # NULL
    /\ ResolvedKey(p) = req[p].bestKey

\* no stage of the resolution matches for the locals l over the published
\* snapshot: no indexed postal code, no exact metro, no prefix or fuzzy metro
\* for the inferred city and state, no nearest metro
NoStageMatched(l) ==
  /\ ~ExactStage(l.address, zillowValues).found
  /\ (l.city # "" /\ l.state # "")
       => BestKey(zillowValues.msaMap, l.city, l.state) = NULL
  /\ l.nearestKey = NULL

\* C14: with a snapshot published, a request for an address that no stage
\* matches is answered with success and a property_value that is a note
\* without region or series; a body is rejected with status 400 exactly where
\* its address is missing (absent or empty) or not a string
C14_NoMatchIsANote ==
  [][\A p \in Reqs :
       /\ (pc[p] # "done" /\ pc'[p] = "done" /\ req'[p].status # 400 /\ ~req'[p].cached
             /\ zillowValues.loaded /\ NoStageMatched(req'[p]))
            => /\ req'[p].status = 200
               /\ req'[p].data.hasPv
               /\ req'[p].data.property_value.kind = "nomatch"
               /\ DOMAIN req'[p].data.property_value \cap {"region", "series", "zhvi"} = {}
       /\ \A body \in ResolveBodies \cup NoMatchBodies :
            ReqStart(p, body)
              => (req'[p].status = 400 <=> (~body.address.isString \/ body.address.str = ""))
       /\ req'[p].status \in {0, 200, 400}]_vars

\* a request whose city and state were inferred and matched no metro was
\* answered with the no-match note
C14_NoMatchAnswered ==
  \E p \in Reqs :
    /\ pc[p] = "done" /\ req[p].status = 200 /\ zillowValues.loaded
    /\ req[p].city # "" /\ req[p].state # ""
    /\ NoStageMatched(req[p])
    /\ req[p].data.property_value.kind = "nomatch"

\* the points of the series are in ascending order of their periods
OrderedByPeriod(series) ==
  \A i \in 1..(Len(series) - 1) : strLess(series[i].ym, series[i + 1].ym)

\* yearly has one point for each year of the series, in ascending order of
\* the years, with the value of the last point of that year
LastOfEachYear(series, yearly) ==
  /\ {yearly[k].year : k \in 1..Len(yearly)} = {SubSeq(series[i].ym, 1, 4) : i \in 1..Len(series)}
  /\ \A k \in 1..(Len(yearly) - 1) : strLess(yearly[k].year, yearly[k + 1].year)
  /\ \A k \in 1..Len(yearly) :
       yearly[k].zhvi =
         series[MaxOf({i \in 1..Len(series) : SubSeq(series[i].ym, 1, 4) = yearly[k].year})].value

\* request p was answered with the values of a region
HasRegionValues(p) ==
  /\ pc[p] = "done" /\ req[p].status = 200 /\ req[p].data.hasPv
  /\ req[p].data.property_value.kind = "region"

\* C15: for a monthly series ordered by period, the yearly series of a
\* response of /api/getPropertyDetails or of /api/regionValues has one point
\* for each year of the series, in ascending order of the years, with the
\* value of the last point of that year
C15_YearlyIsLastOfEachYear ==
  \A p \in Reqs :
    (HasRegionValues(p) /\ OrderedByPeriod(req[p].data.property_value.series))
      => LastOfEachYear(req[p].data.property_value.series, req[p].data.property_value.yearly)

\* the series (2022-01,100), (2022-06,110), (2023-03,120)
ThreeMonths ==
  <<[ym |-> "2022-01", value |-> 100], [ym |-> "2022-06", value |-> 110],
    [ym |-> "2023-03", value |-> 120]>>

\* both routes answered for that series with (2022,110), (2023,120)
C15_BothRoutesAggregate ==
  \E p, q \in Reqs :
    /\ HasRegionValues(p) /\ req[p].region = "" /\ ~req[p].cached
    /\ HasRegionValues(q) /\ req[q].region # ""
    /\ \A x \in {p, q} :
         /\ req[x].data.property_value.series = ThreeMonths
         /\ req[x].data.property_value.yearly =
              <<[year |-> "2022", zhvi |-> 110], [year |-> "2023", zhvi |-> 120]>>

\* the rows of a text, the header first: the cells of its non-blank lines
RowsOf(text) == [i \in 1..Len(csvLines(text)) |-> parseCsvLine(csvLines(text)[i])]
TextRows == [t \in ParseTexts \cup CellTexts \cup PpsfCellTexts |-> RowsOf(t)]

\* the header names a region name column, a region type column and a period
ValidHeader(h) == Len(h.dateCols) > 0 /\ h.nameIdx # 0 /\ h.typeIdx # 0

CellOf(row, i) == IF 1 <= i /\ i <= Len(row) THEN row[i] ELSE ""
RowName(row, h) == trim(CellOf(row, h.nameIdx))
RowType(row, h) == toLowerCase(trim(CellOf(row, h.typeIdx)))
RowKey(row, h) == IF RowType(row, h) = "zip" THEN RowName(row, h) ELSE toUpperCase(RowName(row, h))

\* a cell that is a number: digits, with blanks around them at most
IsNumericCell(c) == trim(c) # "" /\ \A i \in 1..Len(trim(c)) : IsDigit(Ch(trim(c), i))

\* the numeric observations of a row, in the order of the period columns
NumericCols(row, h) == SelectSeq(h.dateCols, LAMBDA d : IsNumericCell(CellOf(row, d.col)))
NumericSeries(row, h) ==
  [k \in 1..Len(NumericCols(row, h)) |->
     [ym |-> NumericCols(row, h)[k].ym,
      value |-> ToNumber(CellOf(row, NumericCols(row, h)[k].col))]]

\* a row of type zip or msa with at least one numeric observation
TypedWithObservation(row, h) ==
  RowType(row, h) \in {"zip", "msa"} /\ Len(NumericCols(row, h)) > 0

\* such a row that also has a cell for every column of the header, and a name
FullRow(row, h) ==
  TypedWithObservation(row, h) /\ Len(row) >= h.len /\ RowName(row, h) # ""

\* the index of the snapshot for a region type
IndexOf(zv, type) == IF type = "zip" THEN zv.zipMap ELSE zv.msaMap

\* C16 (as stated) for the rows R of a text and the snapshot zv built from it:
\* every row of type zip or msa with a numeric observation has its entry
\* under its key in the index of its type, and there are as many entries as
\* such rows
EveryTypedRowIndexed(R, h, zv) ==
  /\ \A i \in 2..Len(R) :
       TypedWithObservation(R[i], h)
         => /\ MapHas(IndexOf(zv, RowType(R[i], h)), RowKey(R[i], h))
            /\ MapGet(IndexOf(zv, RowType(R[i], h)), RowKey(R[i], h)).series
                 = NumericSeries(R[i], h)
  /\ MapSize(zv.zipMap) + MapSize(zv.msaMap)
       = Cardinality({i \in 2..Len(R) : TypedWithObservation(R[i], h)})

\* the last full row that has the type and key of row i
LastWithKey(R, h, i) ==
  MaxOf({j \in 2..Len(R) :
           /\ FullRow(R[j], h)
           /\ RowType(R[j], h) = RowType(R[i], h)
           /\ RowKey(R[j], h) = RowKey(R[i], h)})

\* C16 (amended): every full row has an entry under its key in the index of
\* its type, built from the last full row of that type and key; and every
\* key of an index is the key of a full row of that type
FullRowsIndexed(R, h, zv) ==
  /\ \A i \in 2..Len(R) :
       FullRow(R[i], h)
         => /\ MapHas(IndexOf(zv, RowType(R[i], h)), RowKey(R[i], h))
            /\ MapGet(IndexOf(zv, RowType(R[i], h)), RowKey(R[i], h)).series
                 = NumericSeries(R[LastWithKey(R, h, i)], h)
  /\ \A type \in {"zip", "msa"} :
       \A k \in DOMAIN IndexOf(zv, type).val :
         \E i \in 2..Len(R) :
           FullRow(R[i], h) /\ RowType(R[i], h) = type /\ RowKey(R[i], h) = k

\* the text of the saved file the published snapshot was built from
LoadedText == disk[ZhviTarget].text

\* C16 (as stated): for a text with a valid header, every data row of type
\* zip or msa (in any letter case) with a numeric observation yields exactly
\* one entry, in the zip index under its name or in the metro index under
\* its upper-cased name; rows of other types yield none
C16_EveryTypedRowIndexed ==
  (zillowValues.loaded /\ ValidHeader(headerOf(TextRows[LoadedText][1])))
    => EveryTypedRowIndexed(TextRows[LoadedText], headerOf(TextRows[LoadedText][1]),
                            zillowValues)

\* C16 (amended): for a text with a valid header, every data row of type zip
\* or msa (in any letter case) that has a cell for each column of the
\* header, a name and a numeric observation has one entry under its key in
\* the index of its type, that of the last such row of the key; rows that
\* are shorter, unnamed, of another type or without observation yield none
C16_FullRowsIndexed ==
  (zillowValues.loaded /\ ValidHeader(headerOf(TextRows[LoadedText][1])))
    => FullRowsIndexed(TextRows[LoadedText], headerOf(TextRows[LoadedText][1]), zillowValues)

\* the snapshot built from the text whose rows share keys holds, for the
\* postal code, the entry of the second of its rows, and one metro
C16_LastRowOfKeyStored ==
  /\ zillowValues.loaded /\ LoadedText = CsvSharedKeys
  /\ MapGet(zillowValues.zipMap, "98109").series = <<[ym |-> "2024-02", value |-> 120]>>
  /\ zillowValues.msaMap.keys = <<"KENT, WA">>

\* the configured source of the value index: the environment override, or
\* the default of config.zillowDatasets
ConfiguredSource == IF env.zhvi # "" THEN env.zhvi ELSE DefaultZhviUrl

\* request p starts a load of the value index from src in this step: the
\* fetch of a URL is left in flight, a file is read and parsed at once
StartsLoad(p, src) ==
  IF IsHttpUrl(src) THEN pc'[p] = "zFetch"
  ELSE AssignWide(WideLoad(ReadFile(disk, src), src, WideGlobals))

\* C17: a request that needs the value index while no snapshot is published
\* starts a load from the configured source (the environment override or the
\* configured default) before it resolves; once a snapshot is published, a
\* request starts no load
C17_FirstRequestLoads ==
  [][\A p \in Reqs :
       /\ (~zillowValues.loaded /\ ReqEnsureZillow(p)) => StartsLoad(p, ConfiguredSource)
       /\ (zillowValues.loaded /\ ReqEnsureZillow(p))
            => pc'[p] = "callP" /\ zillowValues' = zillowValues /\ nextGen' = nextGen]_vars

\* in this step loadZillowWideCSV parses a text it read or fetched
ParsesWide ==
  \/ \E p \in Reqs, o \in FetchOutcomes(ZhviTexts) : o.kind = "ok" /\ ReqZillowFetched(p, o)
  \/ \E p \in Reqs :
       /\ ~zillowValues.loaded /\ env.zhvi # "" /\ ~IsHttpUrl(env.zhvi)
       /\ ReadFile(disk, env.zhvi).ok
       /\ ReqEnsureZillow(p)
  \/ \E f \in Refs : ~IsHttpUrl(zhviSrc) /\ ReadFile(disk, zhviSrc).ok /\ RefreshStart(f)
  \/ \E f \in Refs : ref[f].po.kind # "ok" /\ RefreshBufferedZ(f)
  \/ \E f \in Refs : RefreshBufferedP(f)

\* in this step loadZillowPricePerSqftCSV parses a text it read or fetched
ParsesPpsf ==
  \/ \E p \in Reqs, o \in FetchOutcomes(PpsfTexts) : o.kind = "ok" /\ ReqPpsfFetched(p, o)
  \/ \E f \in Refs, o \in FetchOutcomes(PpsfTexts) : o.kind = "ok" /\ RefreshLocalFetched(f, o)
  \/ \E f \in Refs : ref[f].po.kind = "ok" /\ RefreshAfterZ(f)

\* C18: parsing a dataset leaves the published snapshots and the download
\* timestamp as they were: a step in which a loader parses a text assigns
\* none of them, publication being a later step of the caller
C18_ParseLeavesGlobals ==
  [][(ParsesWide \/ ParsesPpsf)
       => /\ zillowValues' = zillowValues
          /\ zillowPpsf' = zillowPpsf
          /\ zillowDownloadTimestamp' = zillowDownloadTimestamp]_vars

\* the maps of the value-index snapshot zv are the whole of the parse of a text
CompleteWide(zv) ==
  \E t \in DOMAIN WideParses :
    /\ WideParses[t].ok
    /\ zv.zipMap = WideParses[t].zipMap /\ zv.msaMap = WideParses[t].msaMap

\* the map of the price-per-sqft snapshot is the whole of the parse of a text
CompletePpsf(snap) ==
  \E t \in DOMAIN PpsfParses : PpsfParses[t].ok /\ snap.msaMap = PpsfParses[t].msaMap

\* the variable holds, after this step, the snapshot it held or a snapshot
\* object made in this step
ReplacedAsAWhole(old, new) ==
  new # old => (new.loaded /\ new.gen = nextGen /\ nextGen' > nextGen /\ new.gen # old.gen)

\* C19: the published snapshot of each family is absent or the whole result
\* of a parse; a step changes what is published only by assigning a snapshot
\* object made in that step, so no load, refresh or request handler adds,
\* removes or modifies an entry or a series of a published snapshot
C19_SnapshotsAreWholeAndImmutable ==
  [][/\ zillowValues'.loaded => CompleteWide(zillowValues')
     /\ zillowPpsf'.loaded => CompletePpsf(zillowPpsf')
     /\ ~zillowValues'.loaded => zillowValues' = NoSnapshot
     /\ ~zillowPpsf'.loaded => zillowPpsf' = NoSnapshot
     /\ ReplacedAsAWhole(zillowValues, zillowValues')
     /\ ReplacedAsAWhole(zillowPpsf, zillowPpsf')]_vars

\* a refresh has replaced a published snapshot by the whole parse of another text
C19_SnapshotReplaced ==
  \E f \in Refs :
    /\ ref[f].published /\ ref[f].prev > 0
    /\ zillowValues.loaded /\ zillowValues.gen > ref[f].prev
    /\ zillowValues.msaMap = WideParses[ZhviB].msaMap

\* the metro keys of the published snapshot that end in the target state of
\* the locals l
KeysOfState(l) ==
  {zillowValues.msaMap.keys[i] : i \in {j \in 1..Len(zillowValues.msaMap.keys) :
                                         endsWith(zillowValues.msaMap.keys[j], ", " \o l.state)}}

\* those of them the geocoder gave a point for; with one request, a key is
\* in the geocode cache exactly if its call gave a point
GeocodedKeys(l) == {k \in KeysOfState(l) : toLowerCase(k) \in DOMAIN geocodeCache}

\* the distance from the address of l to the point of key k
MilesTo(l, k) == haversineMiles(l.addressLoc, geocodeCache[toLowerCase(k)])

\* the nearest stage of request p has run to its end
NearestStageDone(p) == pc[p] = "fin" /\ env.google /\ HasTarget(p)

\* C20: the nearest stage lists exactly the metro keys that end in the
\* target state; it yields no key where the address has no point or no
\* candidate has one; otherwise it yields a candidate that has a point and
\* is at the least distance from the address, whatever that distance is,
\* candidates without a point being skipped
C20_NearestIsLeastDistance ==
  \A p \in Reqs : NearestStageDone(p) =>
    /\ req[p].addressLoc.some
         => {req[p].cands[i] : i \in 1..Len(req[p].cands)} = KeysOfState(req[p])
    /\ IF ~req[p].addressLoc.some \/ GeocodedKeys(req[p]) = {}
         THEN req[p].nearestKey = NULL /\ req[p].nearestMiles = Infinity
         ELSE /\ req[p].nearestKey \in GeocodedKeys(req[p])
              /\ req[p].nearestMiles = MilesTo(req[p], req[p].nearestKey)
              /\ \A k \in GeocodedKeys(req[p]) : MilesTo(req[p], k) >= req[p].nearestMiles

\* with the nearer metro left without a point, the stage chose a metro two
\* degrees of latitude away, and did not choose a nearer metro of another state
C20_FarMetroChosen ==
  \E p \in Reqs :
    /\ NearestStageDone(p)
    /\ "seattle, wa" \notin DOMAIN geocodeCache
    /\ req[p].nearestKey = "KENT, WA"
    /\ req[p].nearestMiles = 2 * MilliMilesPerDegree
    /\ "PORTLAND, OR" \in DOMAIN zillowValues.msaMap.val

\* the characters of a string
CharsOf(s) == {Ch(s, i) : i \in 1..Len(s)}

\* the strings one insertion, deletion or substitution away from s, the
\* characters put in being taken from alphabet
OneEdit(s, alphabet) ==
  {SubSeq(s, 1, i - 1) \o SubSeq(s, i + 1, Len(s)) : i \in 1..Len(s)}
    \cup {SubSeq(s, 1, i - 1) \o c \o SubSeq(s, i + 1, Len(s)) : i \in 1..Len(s), c \in alphabet}
    \cup {SubSeq(s, 1, i) \o c \o SubSeq(s, i + 1, Len(s)) : i \in 0..Len(s), c \in alphabet}

\* the least number of single-character edits that lead from a string of
\* `reached` to b, the strings of `reached` being k edits from the start
RECURSIVE EditsFrom(_, _, _, _)
EditsFrom(reached, b, alphabet, k) ==
  IF b \in reached THEN k
  ELSE EditsFrom(reached \cup UNION {OneEdit(s, alphabet) : s \in reached}, b, alphabet, k + 1)

\* the edit distance by its definition; a character that is in neither
\* string is never worth putting in
EditDistance(a, b) == EditsFrom({a}, b, CharsOf(a) \cup CharsOf(b), 0)
EditDistances == [pair \in LevPairs |-> EditDistance(pair[1], pair[2])]

\* C30: levenshtein(a, b) is the least number of single-character
\* insertions, deletions and substitutions that turn a into b; it is the
\* same for (b, a), and it is 0 exactly where a = b
C30_LevenshteinIsEditDistance ==
  (applied.fn = "levenshtein" /\ applied.done) =>
    /\ applied.out = EditDistances[<<applied.a, applied.b>>]
    /\ applied.out = levenshtein(applied.b, applied.a)
    /\ (applied.out = 0) <=> (applied.a = applied.b)

\* levenshtein gave 1 for "SAN FRANSISCO" and "SAN FRANCISCO"
C30_OneLetterApart ==
  /\ applied.fn = "levenshtein" /\ applied.done
  /\ applied.a = "SAN FRANSISCO" /\ applied.b = "SAN FRANCISCO"
  /\ applied.out = 1

\* a row the loaders parse: long enough, named, and of a type of `types`
ParsedRow(row, h, types) ==
  Len(row) >= h.len /\ RowName(row, h) # "" /\ RowType(row, h) \in types

\* the entry of row in index holds exactly the row's cells that are
\* non-empty and numeric, in column order, and its latest period and value
\* are those of the last of them; a row without such a cell has no entry
ValidObservationsOnly(row, h, index) ==
  IF Len(NumericCols(row, h)) = 0 THEN ~MapHas(index, RowKey(row, h))
  ELSE /\ MapHas(index, RowKey(row, h))
       /\ MapGet(index, RowKey(row, h)).series = NumericSeries(row, h)
       /\ MapGet(index, RowKey(row, h)).date
            = NumericSeries(row, h)[Len(NumericSeries(row, h))].ym
       /\ MapGet(index, RowKey(row, h)).value
            = NumericSeries(row, h)[Len(NumericSeries(row, h))].value

\* the snapshot zv, built from the rows R of a value-index text
WideObservations(R, zv) ==
  \A i \in 2..Len(R) :
    ParsedRow(R[i], headerOf(R[1]), {"zip", "msa"})
      => ValidObservationsOnly(R[i], headerOf(R[1]), IndexOf(zv, RowType(R[i], headerOf(R[1]))))

\* the snapshot snap, built from the rows R of a price-per-sqft text
PpsfObservations(R, snap) ==
  \A i \in 2..Len(R) :
    ParsedRow(R[i], headerOf(R[1]), {"msa"})
      => ValidObservationsOnly(R[i], headerOf(R[1]), snap.msaMap)

\* C22: in every snapshot a load publishes, the series of a parsed row
\* holds exactly the row's period cells that are non-empty and numeric, in
\* column order, the latest period and value are those of the last such
\* cell, and a row without such a cell has no entry; for the value index
\* and for the price-per-sqft index
C22_ObservationsAreNumericCells ==
  [][/\ zillowValues' # zillowValues
          => WideObservations(TextRows[disk'[ZhviTarget].text], zillowValues')
     /\ \A p \in Reqs, o \in FetchOutcomes(PpsfCellTexts) :
          (o.kind = "ok" /\ ReqPpsfFetched(p, o))
            => PpsfObservations(TextRows[o.body], zillowPpsf')
     /\ \A f \in Refs, o \in FetchOutcomes(PpsfCellTexts) :
          (o.kind = "ok" /\ RefreshLocalFetched(f, o))
            => PpsfObservations(TextRows[o.body], zillowPpsf')]_vars

\* the series the published value index stores for the region of payload pv
StoredSeries(pv) ==
  IF pv.type = "zip" THEN MapGet(zillowValues.zipMap, pv.region).series
  ELSE MapGet(zillowValues.msaMap, pv.region).series

\* series is the last min(SeriesCap, n) points of the stored series of
\* length n, in the same order
LastPoints(stored, series) ==
  /\ Len(series) = (IF Len(stored) < SeriesCap THEN Len(stored) ELSE SeriesCap)
  /\ \A i \in 1..Len(series) : series[i] = stored[Len(stored) - Len(series) + i]

\* C24: the value series and the price-per-sqft series of a response of
\* /api/getPropertyDetails or of /api/regionValues are the last
\* min(240, n) points of the stored series of length n, in order, and the
\* yearly series is that of the whole stored series
C24_SeriesAreLastPoints ==
  \A p \in Reqs : HasRegionValues(p) =>
    /\ LastPoints(StoredSeries(req[p].data.property_value), req[p].data.property_value.series)
    /\ LastOfEachYear(StoredSeries(req[p].data.property_value),
                      req[p].data.property_value.yearly)
    /\ req[p].data.property_value.price_per_sqft.present
         => LastPoints(MapGet(zillowPpsf.msaMap,
                              req[p].data.property_value.price_per_sqft.metro_key).series,
                       req[p].data.property_value.price_per_sqft.series)

\* a response of /api/getPropertyDetails for a zip whose stored series is
\* more than a year over the cap: 240 points from 2001-02 on, a yearly point
\* for 2000, and 240 of the 241 price-per-sqft points; and a response of
\* /api/regionValues with 240 of 241 points
C24_LongSeriesCut ==
  \E p, q \in Reqs :
    /\ HasRegionValues(p) /\ req[p].region = ""
    /\ req[p].data.property_value.type = "zip"
    /\ Len(req[p].data.property_value.series) = SeriesCap
    /\ req[p].data.property_value.series[1].ym = "2001-02"
    /\ req[p].data.property_value.yearly[1] = [year |-> "2000", zhvi |-> 12]
    /\ req[p].data.property_value.price_per_sqft.present
    /\ Len(req[p].data.property_value.price_per_sqft.series) = SeriesCap
    /\ HasRegionValues(q) /\ req[q].region # ""
    /\ Len(req[q].data.property_value.series) = SeriesCap
    /\ Len(StoredSeries(req[q].data.property_value)) = OverCap

\* requests p and q ask for the same thing: the same lower-cased address
\* and the same set of lower-cased sections, or all sections both
SameRequest(p, q) ==
  /\ toLowerCase(req[p].address) = toLowerCase(req[q].address)
  /\ req[p].all = req[q].all
  /\ ~req[p].all => SectionSet(p) = SectionSet(q)

\* C25: two requests that have the same cache key have the same
\* lower-cased address and the same set of lower-cased sections (or ask
\* for all sections both), so a payload served from the cache was computed
\* for such a request
C25_OneKeyOneRequest ==
  \A p, q \in Reqs :
    (Accepted(p) /\ Accepted(q) /\ req[p].cacheKey = req[q].cacheKey) => SameRequest(p, q)

\* a step of a load or of a refresh: a snapshot is published, or a refresh
\* moves on
LoadOrRefreshStep ==
  \/ zillowValues' # zillowValues
  \/ zillowPpsf' # zillowPpsf
  \/ \E f \in Refs : pc'[f] # pc[f]

\* C26: no step of a dataset load or refresh changes the response cache,
\* and a request that arrives while the entry under its key has not
\* expired is served that entry's payload, whatever snapshot is published
\* by then
C26_LoadsLeaveCacheAlone ==
  [][/\ LoadOrRefreshStep => cache' = cache
     /\ \A p \in Reqs :
          (Arrives(p) /\ FreshEntry(req'[p].cacheKey))
            => /\ pc'[p] = "done" /\ req'[p].cached
               /\ req'[p].data = cache[req'[p].cacheKey].data]_vars

\* a request was served the "not loaded" note or the no-match note from
\* the cache although a snapshot that indexes its zip is published
C26_StaleNoteServed ==
  \E p \in Reqs :
    /\ pc[p] = "done" /\ req[p].cached
    /\ req[p].data.hasPv
    /\ req[p].data.property_value.kind \in {"notloaded", "nomatch"}
    /\ zillowValues.loaded /\ MapHas(zillowValues.zipMap, "98109")

\* the steps a request takes before the generative call has returned
BeforeAnyLoad(p) == pc[p] \in {"idle", "ai"} /\ pc'[p] # pc[p]

RemoteRefreshesDone == IsHttpUrl(zhviSrc) /\ \A f \in Refs : pc[f] = "done"

\* the persisted primary file and whether it parses
SavedPrimary == ReadFile(disk, ZhviTarget)

\* C28: once every remote-mode refresh has run to completion and the file
\* left at data/zillow_latest.csv parses, the published value-index
\* snapshot holds the maps parsed from that file's contents and was loaded
\* no earlier than the file was written
C28_SnapshotIsParseOfSavedFile ==
  (RemoteRefreshesDone /\ ~PrimaryUnusable(SavedPrimary))
    => /\ zillowValues.loaded
       /\ zillowValues.zipMap = parsedWide(SavedPrimary.text).zipMap
       /\ zillowValues.msaMap = parsedWide(SavedPrimary.text).msaMap
       /\ zillowValues.loadedAt >= disk[ZhviTarget].mtime

\* two refreshes both downloaded, saved and published, and the file left
\* on disk parses
C28_TwoRefreshesSaved ==
  /\ RemoteRefreshesDone /\ ~PrimaryUnusable(SavedPrimary)
  /\ \A f \in Refs : ref[f].status = 200 /\ ref[f].mode = "downloaded" /\ ref[f].published
  /\ zillowValues.gen # ref["f1"].prev /\ zillowValues.gen # ref["f2"].prev

\* C29: a refresh result of mode 'downloaded' carries a value-index
\* snapshot loaded no earlier than its downloaded_at
C29_DownloadedResultIsLoaded ==
  \A f \in Refs :
    (pc[f] = "done" /\ ref[f].status = 200 /\ ref[f].mode = "downloaded")
      => /\ ref[f].zhvi.loaded
         /\ ref[f].zhvi.loadedAt >= ref[f].downloaded_at

\* the edit distance by its recurrence over the last characters
RECURSIVE EditsBetween(_, _)
EditsBetween(a, b) ==
  IF Len(a) = 0 THEN Len(b)
  ELSE IF Len(b) = 0 THEN Len(a)
  ELSE LET a0 == SubSeq(a, 1, Len(a) - 1)
           b0 == SubSeq(b, 1, Len(b) - 1)
       IN IF Ch(a, Len(a)) = Ch(b, Len(b)) THEN EditsBetween(a0, b0)
          ELSE 1 + Min3(EditsBetween(a0, b0), EditsBetween(a0, b), EditsBetween(a, b0))

\* the part of each key before its comma and the part after ", ", and the
\* distances of the fuzzy stage's inputs, computed once
CityOfKey == [k \in FuzzyKeys |-> SubSeq(k, 1, Len(k) - 4)]
StateOfKey == [k \in FuzzyKeys |-> SubSeq(k, Len(k) - 1, Len(k))]
FuzzyEdits ==
  [pair \in {CityOfKey[k] : k \in FuzzyKeys} \X FuzzyCities |->
     EditsBetween(pair[1], pair[2])] @@ <<>>

\* the metro keys of the map that end in the state, and the least distance
\* from the city portion of one of them to the city
SameStateKeys(keys, state) == {k \in {keys[i] : i \in 1..Len(keys)} : StateOfKey[k] = state}
EditsTo(key, city) == FuzzyEdits[<<CityOfKey[key], city>>]
LeastEdits(keys, city, state) == MinOf({EditsTo(k, city) : k \in SameStateKeys(keys, state)})

\* no same-state key's city portion starts with the city, so the direct
\* and prefix stages gave nothing and the fuzzy stage decides
FuzzyStageDecides(keys, city, state) ==
  \A k \in SameStateKeys(keys, state) : ~startsWith(CityOfKey[k], city)

\* C21: where the fuzzy stage decides, both resolvers give a same-state key
\* whose city portion is at the least edit distance from the upper-cased
\* city, if that distance is at most 3; they give no key if it is more
\* than 3 or no key ends in the state
C21_FuzzyAcceptsWithinThree ==
  (applied.fn \in {"BestKey", "findMsaKeyForAddress"} /\ applied.done
     /\ FuzzyStageDecides(applied.keys, applied.city, applied.state))
    => IF SameStateKeys(applied.keys, applied.state) = {}
            \/ LeastEdits(applied.keys, applied.city, applied.state) > 3
         THEN applied.out = NULL
         ELSE /\ applied.out \in SameStateKeys(applied.keys, applied.state)
              /\ EditsTo(applied.out, applied.city)
                   = LeastEdits(applied.keys, applied.city, applied.state)

\* findMsaKeyForAddress gave "KENT, WA" for Renton, three edits away, with
\* a farther key of the state and a key of another state in the map
C21_ThreeEditsAccepted ==
  /\ applied.fn = "findMsaKeyForAddress" /\ applied.done
  /\ applied.city = "RENTON" /\ applied.state = "WA"
  /\ applied.keys = <<"PORTLAND, OR", "SEATTLE, WA", "KENT, WA">>
  /\ EditsTo("KENT, WA", "RENTON") = 3
  /\ applied.out = "KENT, WA"

\* C23 (as stated): parseCsvLine applied to the quoted form of any list of
\* fields returns the list
C23_RoundTripOfEveryList ==
  (applied.fn = "parseCsvLine" /\ applied.done) => applied.out = applied.fields

\* C23: parseCsvLine applied to the quoted form of a list of one or more
\* fields returns the list; the quoted form of the empty list is the empty
\* line, which parses to one empty field
C23_RoundTripOfFields ==
  (applied.fn = "parseCsvLine" /\ applied.done)
    => IF Len(applied.fields) >= 1 THEN applied.out = applied.fields
       ELSE applied.out = <<"">>

\* the quoted "Seattle, WA" came back as one field, next to a second field
C23_QuotedCommaIsOneField ==
  /\ applied.fn = "parseCsvLine" /\ applied.done
  /\ applied.line = "\"Seattle, WA\",\"msa\""
  /\ applied.out = <<"Seattle, WA", "msa">>
====
